---- MODULE Spec2Model ----
(***************************************************************************)
(* Hospital kitchen manager backend (FastAPI + SQLModel): the record store  *)
(* (weeks, purchases, productions, ingredients, hospitals, indirect costs), *)
(* the create/update/delete handlers of app/routers and the report views.   *)
(*                                                                          *)
(* A datetime is an integer number of hours: ordinal day * 24 + hour, the   *)
(* ordinal being Python's date.toordinal().  Money and meal counts are      *)
(* integers.  Record ids (uuid4 in the code) are fresh integers drawn from  *)
(* per-table counters that never reuse a value.                             *)
(*                                                                          *)
(* routers/production.py and routers/reports.py still use the names of the  *)
(* schema before the rename recorded in models.py (School, schoolId,        *)
(* mealsCalculated); the model reads them as the renamed Hospital,          *)
(* hospitalId and patientsServed of models.py:66,211,214.                   *)
(***************************************************************************)
EXTENDS Integers, Sequences, FiniteSets, TLC

VARIABLES
    weeks,          \* table weeks: set of Week rows
    purchases,      \* table purchases: set of Purchase rows
    productions,    \* table productions: set of Production rows
    ingredients,    \* table ingredients: set of [id, lastPrice]
    hospitals,      \* table hospitals: set of [id]
    indirectCosts,  \* table indirect_costs: set of IndirectCost rows
    nextId,         \* per-table count of ids handed out (uuid4 freshness)
    resp,           \* the response of the handler that ran last
    procs,          \* in-flight create requests (interleaved execution only)
    fkEnforced      \* does the configured database enforce FOREIGN KEY clauses

store == <<weeks, purchases, productions, ingredients, hospitals, indirectCosts>>
vars == <<weeks, purchases, productions, ingredients, hospitals, indirectCosts,
          nextId, resp, procs, fkEnforced>>

----------------------------------------------------------------------------
(* Bounds of the model *)

MaxPurchases == 2     \* purchases ever created
MaxProductions == 1   \* productions ever created
MaxWeeks == 3         \* weeks ever created (auto-created or through create_week)
MaxIndirectCosts == 2 \* indirect costs ever created

----------------------------------------------------------------------------
(* The proleptic Gregorian calendar of Python's datetime *)

YearRange == 2023..2027

IsLeap(y) == (y % 4 = 0) /\ ((y % 100 # 0) \/ (y % 400 = 0))

DaysInMonth(y, m) ==
    IF m = 2 THEN (IF IsLeap(y) THEN 29 ELSE 28)
    ELSE IF m \in {4, 6, 9, 11} THEN 30 ELSE 31

RECURSIVE DaysBeforeMonth(_, _)
DaysBeforeMonth(y, m) ==
    IF m = 1 THEN 0 ELSE DaysBeforeMonth(y, m - 1) + DaysInMonth(y, m - 1)

DaysBeforeYear(y) ==
    (y - 1) * 365 + ((y - 1) \div 4) - ((y - 1) \div 100) + ((y - 1) \div 400)

\* date(y, m, d).toordinal()
Ymd2Ord(y, m, d) == DaysBeforeYear(y) + DaysBeforeMonth(y, m) + d

\* datetime(y, m, d, h)
DateTime(y, m, d, h) == Ymd2Ord(y, m, d) * 24 + h

\* dt.date() as an ordinal; func.date(column) in a query
DateOf(dt) == dt \div 24

OrdYear(n) == CHOOSE y \in YearRange : Ymd2Ord(y, 1, 1) <= n /\ n < Ymd2Ord(y + 1, 1, 1)

OrdMonth(n) ==
    LET y == OrdYear(n)
    IN  CHOOSE m \in 1..12 :
            /\ Ymd2Ord(y, m, 1) <= n
            /\ n < Ymd2Ord(y, m, 1) + DaysInMonth(y, m)

\* date.weekday(): Monday = 0
OrdWeekday(n) == (n + 6) % 7

\* dt.year, dt.month, dt.weekday()
YearOf(dt) == OrdYear(DateOf(dt))
MonthOf(dt) == OrdMonth(DateOf(dt))
Weekday(dt) == OrdWeekday(DateOf(dt))

\* datetime._isoweek1monday(year): the Monday of ISO week 1 of `year`
IsoWeek1Monday(y) ==
    LET firstday == Ymd2Ord(y, 1, 1)
        firstweekday == (firstday + 6) % 7
        week1monday == firstday - firstweekday
    IN  IF firstweekday > 3 THEN week1monday + 7 ELSE week1monday

\* date.isocalendar() as <<ISO year, ISO week>>
OrdIsoCalendar(n) ==
    LET y == OrdYear(n)
        week == (n - IsoWeek1Monday(y)) \div 7
    IN  IF week < 0
        THEN <<y - 1, ((n - IsoWeek1Monday(y - 1)) \div 7) + 1>>
        ELSE IF week >= 52 /\ n >= IsoWeek1Monday(y + 1)
             THEN <<y + 1, 1>>
             ELSE <<y, week + 1>>

\* a week number counted in blocks of 7 days from 1 January
IsoWeekNumber_FromNewYear(dt) ==
    ((DateOf(dt) - Ymd2Ord(YearOf(dt), 1, 1)) \div 7) + 1

\* dt.isocalendar()[1]
IsoWeekNumber(dt) == OrdIsoCalendar(DateOf(dt))[2]

\* dt.isocalendar()[0]
IsoYear(dt) == OrdIsoCalendar(DateOf(dt))[1]

----------------------------------------------------------------------------
(* Week bucketing, shared by create_purchase and create_production *)

\* year = date.year ; week_number = date.isocalendar()[1]
WeekKey(dt) == [year |-> YearOf(dt), weekNumber |-> IsoWeekNumber(dt)]

\* a lookup that skips weeks that are no longer ACTIVE
MatchingWeeks_ActiveOnly(ws, year, weekNumber) ==
    {w \in ws : w.year = year /\ w.weekNumber = weekNumber /\ w.status = "ACTIVE"}

\* select(Week).where(Week.year == year, Week.weekNumber == week_number)
MatchingWeeks(ws, year, weekNumber) ==
    {w \in ws : w.year = year /\ w.weekNumber = weekNumber}

\* a new week that does not start in the default status
NewWeek_Completed(id, dt) ==
    LET week_start == dt - 24 * Weekday(dt)
    IN  [id |-> id, month |-> MonthOf(dt), year |-> YearOf(dt),
         weekNumber |-> IsoWeekNumber(dt),
         startDate |-> week_start, endDate |-> week_start + 24 * 6,
         mealsServed |-> 0, ingredientCost |-> 0, costPerMeal |-> 0,
         overheadPerMeal |-> 0, totalCPM |-> 0, status |-> "COMPLETED"]

\* Week(month=..., year=..., weekNumber=..., startDate=week_start, endDate=week_end)
\* with the defaults of WeekBase
NewWeek(id, dt) ==
    LET week_start == dt - 24 * Weekday(dt)
        week_end == week_start + 24 * 6
    IN  [id |-> id,
         month |-> MonthOf(dt),
         year |-> YearOf(dt),
         weekNumber |-> IsoWeekNumber(dt),
         startDate |-> week_start,
         endDate |-> week_end,
         mealsServed |-> 0,
         ingredientCost |-> 0,
         costPerMeal |-> 0,
         overheadPerMeal |-> 0,
         totalCPM |-> 0,
         status |-> "ACTIVE"]

Ids(table) == {r.id : r \in table}

Row(table, id) == CHOOSE r \in table : r.id = id

NoResp == [op |-> "none", arg |-> <<>>, status |-> 0, body |-> <<>>]

\* a finished request: the handler, its argument (the request body of a POST,
\* the path id of a PUT or DELETE), the status code and the row returned
Response(op, arg, status, body) == [op |-> op, arg |-> arg, status |-> status, body |-> body]

\* session.get(Table, id) found a row
Exists(table, id) == id \in Ids(table)

\* a create_purchase that goes on without its ingredient
IngredientFound_Always(id) == TRUE

\* ingredient = session.get(Ingredient, purchase_data.ingredientId) ; if not ingredient
IngredientFound(id) == Exists(ingredients, id)

\* school = session.get(School, production_data.schoolId) ; if not school
HospitalFound(id) == Exists(hospitals, id)


\* a purchase whose total is recomputed from quantity and unit price
NewPurchase_Recomputed(id, weekId, data, user) ==
    [id |-> id, weekId |-> weekId, ingredientId |-> data.ingredientId,
     service |-> data.service, purchaseDate |-> data.purchaseDate,
     quantity |-> data.quantity, unitPrice |-> data.unitPrice,
     totalPrice |-> data.quantity * data.unitPrice, createdBy |-> user]

\* Purchase(weekId=week.id, ..., createdBy=current_user.id)
NewPurchase(id, weekId, data, user) ==
    [id |-> id,
     weekId |-> weekId,
     ingredientId |-> data.ingredientId,
     service |-> data.service,
     purchaseDate |-> data.purchaseDate,
     quantity |-> data.quantity,
     unitPrice |-> data.unitPrice,
     totalPrice |-> data.totalPrice,
     createdBy |-> user]

\* Production(weekId=week.id, ..., createdBy=current_user.id)
NewProduction(id, weekId, data, user) ==
    [id |-> id,
     weekId |-> weekId,
     hospitalId |-> data.hospitalId,
     service |-> data.service,
     productionDate |-> data.productionDate,
     patientsServed |-> data.patientsServed,
     createdBy |-> user]

\* a price written to every ingredient
SetLastPrice_Every(table, id, price) == {[i EXCEPT !.lastPrice = price] : i \in table}

\* ingredient.lastPrice = purchase_data.unitPrice ; session.add ; session.commit
SetLastPrice(table, id, price) ==
    {IF i.id = id THEN [i EXCEPT !.lastPrice = price] ELSE i : i \in table}

\* for field, value in update_data.items(): setattr(row, field, value)
ApplyPatch(row, patch) ==
    [f \in DOMAIN row |-> IF f \in DOMAIN patch THEN patch[f] ELSE row[f]]

\* a check that looks at the purchases only
WeekHasData_PurchasesOnly(id) == \E p \in purchases : p.weekId = id

\* week.purchases or week.productions
WeekHasData(id) ==
    \/ \E p \in purchases : p.weekId = id
    \/ \E p \in productions : p.weekId = id

\* hospital.productions
HospitalHasData(id) == \E p \in productions : p.hospitalId = id

\* ingredient.purchases
IngredientHasData(id) == \E p \in purchases : p.ingredientId = id

----------------------------------------------------------------------------
(* The handlers, each run from its first line to its return with no other   *)
(* request in between                                                       *)

create_purchase(data, user) ==
    /\ UNCHANGED <<productions, hospitals, indirectCosts, procs, fkEnforced>>
    /\ IF ~IngredientFound(data.ingredientId)
       THEN /\ resp' = Response("create_purchase", data, 404, <<>>)
            /\ UNCHANGED <<weeks, purchases, ingredients, nextId>>
       ELSE LET key == WeekKey(data.purchaseDate)
                found == MatchingWeeks(weeks, key.year, key.weekNumber)
                created == NewWeek(nextId.weeks + 1, data.purchaseDate)
            IN  /\ nextId.purchases < MaxPurchases
                /\ found = {} => nextId.weeks < MaxWeeks
                /\ \E week \in (IF found = {} THEN {created} ELSE found) :
                     LET purchase == NewPurchase(nextId.purchases + 1, week.id, data, user)
                     IN  /\ weeks' = weeks \cup {week}
                         /\ purchases' = purchases \cup {purchase}
                         /\ ingredients' = SetLastPrice(ingredients, data.ingredientId,
                                                        data.unitPrice)
                         /\ nextId' = [nextId EXCEPT
                                !.purchases = @ + 1,
                                !.weeks = IF found = {} THEN @ + 1 ELSE @]
                         /\ resp' = Response("create_purchase", data, 200, purchase)

create_production(data, user) ==
    /\ UNCHANGED <<purchases, ingredients, hospitals, indirectCosts, procs, fkEnforced>>
    /\ IF ~HospitalFound(data.hospitalId)
       THEN /\ resp' = Response("create_production", data, 404, <<>>)
            /\ UNCHANGED <<weeks, productions, nextId>>
       ELSE LET key == WeekKey(data.productionDate)
                found == MatchingWeeks(weeks, key.year, key.weekNumber)
                created == NewWeek(nextId.weeks + 1, data.productionDate)
            IN  /\ nextId.productions < MaxProductions
                /\ found = {} => nextId.weeks < MaxWeeks
                /\ \E week \in (IF found = {} THEN {created} ELSE found) :
                     LET production == NewProduction(nextId.productions + 1, week.id,
                                                     data, user)
                     IN  /\ weeks' = weeks \cup {week}
                         /\ productions' = productions \cup {production}
                         /\ nextId' = [nextId EXCEPT
                                !.productions = @ + 1,
                                !.weeks = IF found = {} THEN @ + 1 ELSE @]
                         /\ resp' = Response("create_production", data, 200, production)

create_week(data) ==
    /\ UNCHANGED <<purchases, productions, ingredients, hospitals, indirectCosts,
                   procs, fkEnforced>>
    /\ IF MatchingWeeks(weeks, data.year, data.weekNumber) # {}
       THEN /\ resp' = Response("create_week", data, 400, <<>>)
            /\ UNCHANGED <<weeks, nextId>>
       ELSE LET week == [id |-> nextId.weeks + 1] @@ data
            IN  /\ nextId.weeks < MaxWeeks
                /\ weeks' = weeks \cup {week}
                /\ nextId' = [nextId EXCEPT !.weeks = @ + 1]
                /\ resp' = Response("create_week", data, 200, week)

update_week(week_id, week_update) ==
    /\ UNCHANGED <<purchases, productions, ingredients, hospitals, indirectCosts,
                   nextId, procs, fkEnforced>>
    /\ IF ~Exists(weeks, week_id)
       THEN /\ resp' = Response("update_week", week_id, 404, <<>>)
            /\ UNCHANGED weeks
       ELSE LET week == ApplyPatch(Row(weeks, week_id), week_update)
            IN  /\ weeks' = (weeks \ {Row(weeks, week_id)}) \cup {week}
                /\ resp' = Response("update_week", week_id, 200, week)

delete_week(week_id) ==
    /\ UNCHANGED <<purchases, productions, ingredients, hospitals, indirectCosts,
                   nextId, procs, fkEnforced>>
    /\ IF ~Exists(weeks, week_id)
       THEN /\ resp' = Response("delete_week", week_id, 404, <<>>)
            /\ UNCHANGED weeks
       ELSE IF WeekHasData(week_id)
       THEN /\ resp' = Response("delete_week", week_id, 400, <<>>)
            /\ UNCHANGED weeks
       ELSE /\ weeks' = weeks \ {Row(weeks, week_id)}
            /\ resp' = Response("delete_week", week_id, 200, <<>>)

delete_hospital(hospital_id) ==
    /\ UNCHANGED <<weeks, purchases, productions, ingredients, indirectCosts,
                   nextId, procs, fkEnforced>>
    /\ IF ~Exists(hospitals, hospital_id)
       THEN /\ resp' = Response("delete_hospital", hospital_id, 404, <<>>)
            /\ UNCHANGED hospitals
       ELSE IF HospitalHasData(hospital_id)
       THEN /\ resp' = Response("delete_hospital", hospital_id, 400, <<>>)
            /\ UNCHANGED hospitals
       ELSE /\ hospitals' = hospitals \ {Row(hospitals, hospital_id)}
            /\ resp' = Response("delete_hospital", hospital_id, 200, <<>>)

delete_ingredient(ingredient_id) ==
    /\ UNCHANGED <<weeks, purchases, productions, hospitals, indirectCosts,
                   nextId, procs, fkEnforced>>
    /\ IF ~Exists(ingredients, ingredient_id)
       THEN /\ resp' = Response("delete_ingredient", ingredient_id, 404, <<>>)
            /\ UNCHANGED ingredients
       ELSE IF IngredientHasData(ingredient_id)
       THEN /\ resp' = Response("delete_ingredient", ingredient_id, 400, <<>>)
            /\ UNCHANGED ingredients
       ELSE /\ ingredients' = ingredients \ {Row(ingredients, ingredient_id)}
            /\ resp' = Response("delete_ingredient", ingredient_id, 200, <<>>)

----------------------------------------------------------------------------
(* Request inputs *)

Users == {"admin"}
IngredientIds == {1}
HospitalIds == {1}
WeekIds == 1..MaxWeeks

Mon30Dec2024 == DateTime(2024, 12, 30, 9)   \* ISO 2025-W01, calendar year 2024
Wed01Jan2025 == DateTime(2025, 1, 1, 9)     \* ISO 2025-W01, calendar year 2025
Mon03Mar2025 == DateTime(2025, 3, 3, 15)    \* ISO 2025-W10
Wed05Mar2025 == DateTime(2025, 3, 5, 9)     \* ISO 2025-W10

PurchaseDates == {Mon30Dec2024, Wed01Jan2025, Wed05Mar2025}
ProductionDates == {Mon03Mar2025}

PurchaseInputs ==
    {[ingredientId |-> i, service |-> "LUNCH", purchaseDate |-> d,
      quantity |-> 2, unitPrice |-> 10, totalPrice |-> 25] :
        i \in IngredientIds, d \in PurchaseDates}

ProductionInputs ==
    {[hospitalId |-> h, service |-> "LUNCH", productionDate |-> d,
      patientsServed |-> 10] : h \in HospitalIds, d \in ProductionDates}

\* A WeekCreate body: create_week stores the dates it is given, here a span
\* that starts on a Wednesday and is 3 days long
WeekInputs ==
    {[month |-> 1, year |-> 2025, weekNumber |-> 1,
      startDate |-> DateTime(2025, 1, 1, 0), endDate |-> DateTime(2025, 1, 4, 0),
      mealsServed |-> 7, ingredientCost |-> 0, costPerMeal |-> 0,
      overheadPerMeal |-> 0, totalCPM |-> 0, status |-> "COMPLETED"]}

WeekUpdateInputs ==
    {[status |-> "LOCKED", mealsServed |-> 10, ingredientCost |-> 300, costPerMeal |-> 30]}

----------------------------------------------------------------------------
(* Sequential execution: the seeded store, one request at a time *)

Init ==
    /\ weeks = {}
    /\ purchases = {}
    /\ productions = {}
    /\ ingredients = {[id |-> i, lastPrice |-> 0] : i \in IngredientIds}
    /\ hospitals = {[id |-> h] : h \in HospitalIds}
    /\ indirectCosts = {}
    /\ nextId = [weeks |-> 0, purchases |-> 0, productions |-> 0, indirectCosts |-> 0]
    /\ resp = NoResp
    /\ procs = <<>>
    /\ fkEnforced = FALSE

Next ==
    \/ \E data \in PurchaseInputs, user \in Users : create_purchase(data, user)
    \/ \E data \in ProductionInputs, user \in Users : create_production(data, user)
    \/ \E data \in WeekInputs : create_week(data)
    \/ \E id \in WeekIds, patch \in WeekUpdateInputs : update_week(id, patch)
    \/ \E id \in WeekIds : delete_week(id)
    \/ \E id \in HospitalIds : delete_hospital(id)
    \/ \E id \in IngredientIds : delete_ingredient(id)

Spec == Init /\ [][Next]_vars


----------------------------------------------------------------------------
(* Interleaved execution: several workers serve requests against one        *)
(* database.  A create handler commits up to three times (the new week, the *)
(* record, the ingredient's lastPrice); another request's commit can fall   *)
(* between any two of its statements.  The delete handlers commit once and  *)
(* are taken as one step.  The weeks table has no uniqueness constraint on  *)
(* (year, weekNumber) (models.py:129-151).  FOREIGN KEY clauses are         *)
(* declared (models.py:171-172,210-211) and enforced or not by the database *)
(* that DATABASE_URL selects: the default SQLite connection of              *)
(* database.py:6-14 does not enforce them.                                  *)

NumProcs == 2
Procs == 1..NumProcs

Idle == [pc |-> "idle", op |-> "none", data |-> <<>>, user |-> "", weekId |-> 0,
         recordId |-> 0]

InFlight(op) == Cardinality({p \in DOMAIN procs : procs[p].op = op})

\* purchases.py:56-62: the ingredient is read
begin_create_purchase(p, data, user) ==
    /\ procs[p].pc = "idle"
    /\ UNCHANGED <<store, nextId, fkEnforced>>
    /\ IF ~IngredientFound(data.ingredientId)
       THEN /\ resp' = Response("create_purchase", data, 404, <<>>)
            /\ UNCHANGED procs
       ELSE /\ nextId.purchases + InFlight("create_purchase") < MaxPurchases
            /\ procs' = [procs EXCEPT ![p] = [Idle EXCEPT
                   !.pc = "find_week", !.op = "create_purchase",
                   !.data = data, !.user = user]]
            /\ UNCHANGED resp

\* production.py:56-62: the hospital is read
begin_create_production(p, data, user) ==
    /\ procs[p].pc = "idle"
    /\ UNCHANGED <<store, nextId, fkEnforced>>
    /\ IF ~HospitalFound(data.hospitalId)
       THEN /\ resp' = Response("create_production", data, 404, <<>>)
            /\ UNCHANGED procs
       ELSE /\ nextId.productions + InFlight("create_production") < MaxProductions
            /\ procs' = [procs EXCEPT ![p] = [Idle EXCEPT
                   !.pc = "find_week", !.op = "create_production",
                   !.data = data, !.user = user]]
            /\ UNCHANGED resp

\* the date of an in-flight create request
ProcDate(r) ==
    IF r.op = "create_purchase" THEN r.data.purchaseDate ELSE r.data.productionDate

\* purchases.py:64-77, production.py:64-77: the week lookup, .first() of the
\* matching rows
find_week(p) ==
    /\ procs[p].pc = "find_week"
    /\ UNCHANGED <<store, nextId, resp, fkEnforced>>
    /\ LET key == WeekKey(ProcDate(procs[p]))
           found == MatchingWeeks(weeks, key.year, key.weekNumber)
       IN  IF found = {}
           THEN procs' = [procs EXCEPT ![p].pc = "insert_week"]
           ELSE \E week \in found :
                    procs' = [procs EXCEPT ![p].pc = "insert_record",
                                           ![p].weekId = week.id]

\* purchases.py:78-92, production.py:78-92: the new week is added and committed
insert_week(p) ==
    /\ procs[p].pc = "insert_week"
    /\ nextId.weeks < MaxWeeks
    /\ UNCHANGED <<purchases, productions, ingredients, hospitals, indirectCosts,
                   resp, fkEnforced>>
    /\ LET week == NewWeek(nextId.weeks + 1, ProcDate(procs[p]))
       IN  /\ weeks' = weeks \cup {week}
           /\ nextId' = [nextId EXCEPT !.weeks = @ + 1]
           /\ procs' = [procs EXCEPT ![p].pc = "insert_record", ![p].weekId = week.id]

\* purchases.py:94-108: the purchase is added and committed; a database that
\* enforces foreign keys refuses a row whose week or ingredient is gone
insert_purchase(p) ==
    /\ procs[p].pc = "insert_record"
    /\ procs[p].op = "create_purchase"
    /\ UNCHANGED <<weeks, productions, ingredients, hospitals, indirectCosts, fkEnforced>>
    /\ LET r == procs[p]
           purchase == NewPurchase(nextId.purchases + 1, r.weekId, r.data, r.user)
       IN  IF fkEnforced /\ ~(Exists(weeks, r.weekId)
                              /\ Exists(ingredients, r.data.ingredientId))
           THEN /\ resp' = Response("create_purchase", r.data, 500, <<>>)
                /\ procs' = [procs EXCEPT ![p] = Idle]
                /\ UNCHANGED <<purchases, nextId>>
           ELSE /\ purchases' = purchases \cup {purchase}
                /\ nextId' = [nextId EXCEPT !.purchases = @ + 1]
                /\ procs' = [procs EXCEPT ![p].pc = "update_last_price",
                                          ![p].recordId = purchase.id]
                /\ UNCHANGED resp

\* production.py:94-115: the production is added and committed, and returned
insert_production(p) ==
    /\ procs[p].pc = "insert_record"
    /\ procs[p].op = "create_production"
    /\ UNCHANGED <<weeks, purchases, ingredients, hospitals, indirectCosts, fkEnforced>>
    /\ LET r == procs[p]
           production == NewProduction(nextId.productions + 1, r.weekId, r.data, r.user)
       IN  /\ procs' = [procs EXCEPT ![p] = Idle]
           /\ IF fkEnforced /\ ~(Exists(weeks, r.weekId)
                                 /\ Exists(hospitals, r.data.hospitalId))
              THEN /\ resp' = Response("create_production", r.data, 500, <<>>)
                   /\ UNCHANGED <<productions, nextId>>
              ELSE /\ productions' = productions \cup {production}
                   /\ nextId' = [nextId EXCEPT !.productions = @ + 1]
                   /\ resp' = Response("create_production", r.data, 200, production)

\* purchases.py:110-118: the ingredient's lastPrice is updated and committed;
\* the UPDATE of a row that is gone matches nothing and the request fails
update_last_price(p) ==
    /\ procs[p].pc = "update_last_price"
    /\ UNCHANGED <<weeks, purchases, productions, hospitals, indirectCosts, nextId,
                   fkEnforced>>
    /\ LET r == procs[p]
       IN  /\ procs' = [procs EXCEPT ![p] = Idle]
           /\ IF ~Exists(ingredients, r.data.ingredientId)
              THEN /\ resp' = Response("create_purchase", r.data, 500, <<>>)
                   /\ UNCHANGED ingredients
              ELSE /\ ingredients' = SetLastPrice(ingredients, r.data.ingredientId,
                                                  r.data.unitPrice)
                   /\ resp' = Response("create_purchase", r.data, 200,
                                       Row(purchases, r.recordId))

InitConc ==
    /\ weeks = {}
    /\ purchases = {}
    /\ productions = {}
    /\ ingredients = {[id |-> i, lastPrice |-> 0] : i \in IngredientIds}
    /\ hospitals = {[id |-> h] : h \in HospitalIds}
    /\ indirectCosts = {}
    /\ nextId = [weeks |-> 0, purchases |-> 0, productions |-> 0, indirectCosts |-> 0]
    /\ resp = NoResp
    /\ procs = [p \in Procs |-> Idle]
    /\ fkEnforced \in BOOLEAN

\* the racing requests all name dates of one week, 2025-W10
ConcPurchaseInputs == {data \in PurchaseInputs : data.purchaseDate = Wed05Mar2025}

NextConc ==
    \/ \E p \in Procs, data \in ConcPurchaseInputs, user \in Users :
           begin_create_purchase(p, data, user)
    \/ \E p \in Procs, data \in ProductionInputs, user \in Users :
           begin_create_production(p, data, user)
    \/ \E p \in Procs : find_week(p)
    \/ \E p \in Procs : insert_week(p)
    \/ \E p \in Procs : insert_purchase(p)
    \/ \E p \in Procs : insert_production(p)
    \/ \E p \in Procs : update_last_price(p)
    \/ \E id \in WeekIds : delete_week(id)
    \/ \E id \in HospitalIds : delete_hospital(id)
    \/ \E id \in IngredientIds : delete_ingredient(id)

SpecConc == InitConc /\ [][NextConc]_vars

----------------------------------------------------------------------------
(* Report arithmetic.  A Python float is modelled as an exact fraction      *)
(* [num, den]; den = 0 stands for the ZeroDivisionError that a division by   *)
(* zero raises.                                                              *)

Zero == [num |-> 0, den |-> 1]

\* a / b
TrueDiv(a, b) == [num |-> a, den |-> b]

\* a division that is taken whatever the divisor
Ratio_Unguarded(a, b) == [num |-> a, den |-> b]

\* a / b if b > 0 else 0
Ratio(a, b) == IF b > 0 THEN TrueDiv(a, b) ELSE Zero

\* the sum of x and y each rounded to 2 decimal places
AddRatio_Rounded(x, y) ==
    LET cents(z) == LET n == z.num * 100
                        q == n \div z.den
                        r == n - q * z.den
                    IN  IF 2 * r < z.den THEN q
                        ELSE IF 2 * r > z.den THEN q + 1
                        ELSE IF q % 2 = 0 THEN q ELSE q + 1
    IN  [num |-> cents(x) + cents(y), den |-> 100]

\* x + y
AddRatio(x, y) == [num |-> x.num * y.den + y.num * x.den, den |-> x.den * y.den]

\* round(x * scale) / scale as a count of 1/scale units, halves to the even
\* neighbour: round(x) is scale 1, round(x, 1) scale 10, round(x, 2) scale 100
RoundScaled(x, scale) ==
    LET n == x.num * scale
        q == n \div x.den
        r == n - q * x.den
    IN  IF 2 * r < x.den THEN q
        ELSE IF 2 * r > x.den THEN q + 1
        ELSE IF q % 2 = 0 THEN q ELSE q + 1

RECURSIVE SumSeq(_)
\* sum(...) over a list
SumSeq(xs) == IF xs = <<>> THEN 0 ELSE Head(xs) + SumSeq(Tail(xs))

RECURSIVE RowsInOrder(_)
\* .all(): the selected rows as a list, in insertion order (no ORDER BY)
RowsInOrder(rows) ==
    IF rows = {} THEN <<>>
    ELSE LET first == CHOOSE r \in rows : \A o \in rows : r.id <= o.id
         IN  <<first>> \o RowsInOrder(rows \ {first})

\* sum(p.totalPrice for p in ...)
TotalPrice(rows) == LET l == RowsInOrder(rows)
                    IN  SumSeq([i \in 1..Len(l) |-> l[i].totalPrice])

\* sum(p.mealsCalculated for p in ...)
TotalMeals(rows) == LET l == RowsInOrder(rows)
                    IN  SumSeq([i \in 1..Len(l) |-> l[i].patientsServed])

\* sum(c.amount for c in ...)
TotalAmount(rows) == LET l == RowsInOrder(rows)
                     IN  SumSeq([i \in 1..Len(l) |-> l[i].amount])

\* where func.date(Production.productionDate) >= lo, <= hi
ProductionsOn(lo, hi) ==
    {p \in productions : lo <= DateOf(p.productionDate) /\ DateOf(p.productionDate) <= hi}

\* a selection with no lower end
PurchasesOn_Until(lo, hi) == {p \in purchases : DateOf(p.purchaseDate) <= hi}

\* where func.date(Purchase.purchaseDate) >= lo, <= hi
PurchasesOn(lo, hi) ==
    {p \in purchases : lo <= DateOf(p.purchaseDate) /\ DateOf(p.purchaseDate) <= hi}

\* where IndirectCost.year == year, IndirectCost.month == month
IndirectCostsOf(year, month) ==
    {c \in indirectCosts : c.year = year /\ c.month = month}

RECURSIVE FirstSeen(_, _)
\* the keys of a dict filled in one pass over a list, in insertion order
FirstSeen(keys, seen) ==
    IF keys = <<>> THEN <<>>
    ELSE IF Head(keys) \in seen THEN FirstSeen(Tail(keys), seen)
    ELSE <<Head(keys)>> \o FirstSeen(Tail(keys), seen \cup {Head(keys)})

RECURSIVE InsertDescending(_, _, _), InsertDescending_Unstable(_, _, _)
\* x placed in front of the elements whose key equals its own
InsertDescending_Unstable(sorted, x, field) ==
    IF sorted = <<>> THEN <<x>>
    ELSE IF Head(sorted)[field] > x[field]
         THEN <<Head(sorted)>> \o InsertDescending_Unstable(Tail(sorted), x, field)
         ELSE <<x>> \o sorted

\* x placed behind every element of the sorted list whose key is >= its own
InsertDescending(sorted, x, field) ==
    IF sorted = <<>> THEN <<x>>
    ELSE IF Head(sorted)[field] >= x[field]
         THEN <<Head(sorted)>> \o InsertDescending(Tail(sorted), x, field)
         ELSE <<x>> \o sorted

RECURSIVE SortDescending(_, _)
\* list.sort(key=lambda x: x[field], reverse=True): stable
SortDescending(xs, field) ==
    IF xs = <<>> THEN <<>>
    ELSE InsertDescending(SortDescending(SubSeq(xs, 1, Len(xs) - 1), field),
                          xs[Len(xs)], field)

\* where func.date(Production.productionDate) >= lo
ProductionsSince(lo) == {p \in productions : lo <= DateOf(p.productionDate)}

\* where func.date(Purchase.purchaseDate) >= lo
PurchasesSince(lo) == {p \in purchases : lo <= DateOf(p.purchaseDate)}

\* the values of one field of a list of rows
Column(rows, field) == [i \in 1..Len(rows) |-> rows[i][field]]

\* the datetimes themselves, hour included
DatesOf_WithHour(dts) == dts

\* the calendar dates of a list of datetimes
DatesOf(dts) == [i \in 1..Len(dts) |-> DateOf(dts[i])]

\* the rows of a list whose field has the value, as a set
WithValue(rows, field, v) == {rows[i] : i \in {k \in 1..Len(rows) : rows[k][field] = v}}

----------------------------------------------------------------------------
(* GET /dashboard: reports.py:11-170.  `today` is datetime.now().date(), an  *)
(* ordinal day.                                                              *)

\* reports.py:84-114: yesterday's productions grouped by hospital; a group
\* whose hospital row is missing is left out.  A hospital's name is its id.
DashboardContribution(today) ==
    LET yesterday_productions == RowsInOrder(ProductionsOn(today - 1, today - 1))
        yesterday_meals == TotalMeals(ProductionsOn(today - 1, today - 1))
        school_ids == FirstSeen(Column(yesterday_productions, "hospitalId"), {})
        group(i) ==
            LET meals == TotalMeals(WithValue(yesterday_productions, "hospitalId",
                                              school_ids[i]))
            IN  [name |-> school_ids[i],
                 meals |-> meals,
                 percentage |-> TrueDiv(meals * 100, yesterday_meals)]
        known == {i \in 1..Len(school_ids) : Exists(hospitals, school_ids[i])}
        RECURSIVE Listed(_)
        Listed(i) == IF i > Len(school_ids) THEN <<>>
                     ELSE (IF i \in known THEN <<group(i)>> ELSE <<>>) \o Listed(i + 1)
    IN  IF yesterday_meals > 0 THEN SortDescending(Listed(1), "meals") ELSE <<>>

\* reports.py:132-160: the CPM of the 4 weeks before the current one and of the
\* current one
DashboardCpmTrend(today) ==
    LET week_start == today - OrdWeekday(today)
    IN  [i \in 1..5 |->
            LET week_start_trend == week_start - 7 * (4 - (i - 1))
                week_end_trend == week_start_trend + 6
                week_meals_trend == TotalMeals(ProductionsOn(week_start_trend,
                                                             week_end_trend))
                week_cost_trend == TotalPrice(PurchasesOn(week_start_trend,
                                                          week_end_trend))
            IN  [week |-> <<"W1", "W2", "W3", "W4", "Current">>[i],
                 cost |-> week_cost_trend,
                 meals |-> week_meals_trend,
                 cpm |-> Ratio(week_cost_trend, week_meals_trend)]]

\* a trend listed from today back to six days ago
DashboardSevenDayTrend_NewestFirst(today) ==
    [i \in 1..7 |->
        LET date == today - (i - 1)
        IN  [date |-> OrdWeekday(date),
             meals |-> TotalMeals(ProductionsOn(date, date))]]

\* reports.py:116-130: the meals of today and of the 6 days before it; an
\* entry's date is date.strftime('%a'), the day of the week
DashboardSevenDayTrend(today) ==
    [i \in 1..7 |->
        LET date == today - (6 - (i - 1))
        IN  [date |-> OrdWeekday(date),
             meals |-> TotalMeals(ProductionsOn(date, date))]]

\* the values get_dashboard_data computes, before rounding
Dashboard(today) ==
    LET week_start == today - OrdWeekday(today)
        week_end == week_start + 6
        month_start == Ymd2Ord(OrdYear(today), OrdMonth(today), 1)
        week_meals == TotalMeals(ProductionsOn(week_start, week_end))
        week_ingredient_cost == TotalPrice(PurchasesOn(week_start, week_end))
        month_meals == TotalMeals(ProductionsSince(month_start))
        month_ingredient_cost == TotalPrice(PurchasesSince(month_start))
        month_indirect_total ==
            TotalAmount(IndirectCostsOf(OrdYear(month_start), OrdMonth(month_start)))
    IN  [yesterday_meals |-> TotalMeals(ProductionsOn(today - 1, today - 1)),
         week_meals |-> week_meals,
         week_ingredient_cost |-> week_ingredient_cost,
         current_week_cpm |-> Ratio(week_ingredient_cost, week_meals),
         month_meals |-> month_meals,
         month_ingredient_cost |-> month_ingredient_cost,
         month_indirect_total |-> month_indirect_total,
         month_avg_cpm |-> Ratio(month_ingredient_cost + month_indirect_total,
                                 month_meals),
         schools_contribution |-> DashboardContribution(today),
         seven_day_trend |-> DashboardSevenDayTrend(today),
         month_cpm_trend |-> DashboardCpmTrend(today)]

\* a division of get_dashboard_data raised
DashboardRaises(c) ==
    \/ c.current_week_cpm.den = 0
    \/ c.month_avg_cpm.den = 0
    \/ \E i \in 1..Len(c.schools_contribution) : c.schools_contribution[i].percentage.den = 0
    \/ \E i \in 1..Len(c.month_cpm_trend) : c.month_cpm_trend[i].cpm.den = 0

\* reports.py:162-170: the dict returned
DashboardBody(c) ==
    [yesterdayMeals |-> c.yesterday_meals,
     weekToDateMeals |-> c.week_meals,
     currentWeekCPM |-> RoundScaled(c.current_week_cpm, 1),
     monthToDateAvgCPM |-> RoundScaled(c.month_avg_cpm, 1),
     schoolsContribution |->
        [i \in 1..Len(c.schools_contribution) |->
            [name |-> c.schools_contribution[i].name,
             meals |-> c.schools_contribution[i].meals,
             percentage |-> RoundScaled(c.schools_contribution[i].percentage, 10)]],
     sevenDayTrend |-> c.seven_day_trend,
     monthCPMTrend |->
        [i \in 1..Len(c.month_cpm_trend) |->
            [week |-> c.month_cpm_trend[i].week,
             cpm |-> RoundScaled(c.month_cpm_trend[i].cpm, 1)]]]

get_dashboard_data(today) ==
    /\ UNCHANGED <<store, nextId, procs, fkEnforced>>
    /\ LET c == Dashboard(today)
       IN  resp' = IF DashboardRaises(c)
                   THEN Response("get_dashboard_data", today, 500, <<>>)
                   ELSE Response("get_dashboard_data", today, 200, DashboardBody(c))

----------------------------------------------------------------------------
(* GET /weekly: reports.py:172-236 *)

\* a span counted from 1 January itself
WeeklyStart_FromJanuaryFirst(year, week_number) ==
    Ymd2Ord(year, 1, 1) + 7 * (week_number - 1)

\* reports.py:179-182: week_start.date() of the span the report covers
WeeklyStart(year, week_number) ==
    LET jan_1 == Ymd2Ord(year, 1, 1)
    IN  jan_1 + 7 * (week_number - 1) - OrdWeekday(jan_1)

\* reports.py:200-220: one entry per date, productions first, then purchases
WeeklyDailyData(purchase_list, production_list) ==
    LET dates == FirstSeen(DatesOf(Column(production_list, "productionDate"))
                           \o DatesOf(Column(purchase_list, "purchaseDate")), {})
    IN  [i \in 1..Len(dates) |->
            [date |-> dates[i],
             meals |-> TotalMeals({production_list[k] : k \in
                          {n \in 1..Len(production_list) :
                              DateOf(production_list[n].productionDate) = dates[i]}}),
             cost |-> TotalPrice({purchase_list[k] : k \in
                          {n \in 1..Len(purchase_list) :
                              DateOf(purchase_list[n].purchaseDate) = dates[i]}})]]

WeeklyReport(year, week_number) ==
    LET week_start == WeeklyStart(year, week_number)
        week_end == week_start + 6
        purchase_list == RowsInOrder(PurchasesOn(week_start, week_end))
        production_list == RowsInOrder(ProductionsOn(week_start, week_end))
    IN  [week |-> [id |-> <<year, week_number>>, year |-> year,
                   weekNumber |-> week_number,
                   startDate |-> week_start * 24, endDate |-> week_end * 24],
         purchases |-> purchase_list,
         productions |-> production_list,
         dailyData |-> WeeklyDailyData(purchase_list, production_list)]

\* a weekly report that saves the week object it builds
get_weekly_report_Saving(year, week_number) ==
    /\ UNCHANGED <<purchases, productions, ingredients, hospitals, indirectCosts,
                   nextId, procs, fkEnforced>>
    /\ weeks' = weeks \cup {NewWeek(0, WeeklyStart(year, week_number) * 24)}
    /\ resp' = Response("get_weekly_report", <<year, week_number>>, 200,
                        WeeklyReport(year, week_number))

get_weekly_report(year, week_number) ==
    /\ UNCHANGED <<store, nextId, procs, fkEnforced>>
    /\ resp' = Response("get_weekly_report", <<year, week_number>>, 200,
                        WeeklyReport(year, week_number))

----------------------------------------------------------------------------
(* GET /indirect-costs-breakdown and GET /cost-analysis: reports.py:266-422 *)

\* reports.py:284-288, 347-351: datetime(year, month, 1)
MonthStart(year, month) == DateTime(year, month, 1, 0)

\* reports.py:284-288, 347-351: midnight of the month's last day, the first of
\* the next month minus one day
MonthEnd(year, month) ==
    IF month = 12 THEN DateTime(year + 1, 1, 1, 0) - 24
    ELSE DateTime(year, month + 1, 1, 0) - 24

\* where Production.productionDate >= month_start, <= month_end
MonthProductions(year, month) ==
    {p \in productions : /\ p.productionDate >= MonthStart(year, month)
                         /\ p.productionDate <= MonthEnd(year, month)}

\* where Purchase.purchaseDate >= month_start, <= month_end
MonthPurchases(year, month) ==
    {p \in purchases : /\ p.purchaseDate >= MonthStart(year, month)
                       /\ p.purchaseDate <= MonthEnd(year, month)}

\* reports.py:303: f"{cost.code}_{cost.category}" if cost.code else cost.category
\* (an absent code is ""; no category of the inputs holds an underscore)
CostGroupKey(cost) == IF cost.code # "" THEN <<cost.code, cost.category>>
                      ELSE <<"", cost.category>>

\* reports.py:300-326: the groups in first-seen order with their percentage,
\* then sorted by amount
BreakdownDetails(costs, total_amount) ==
    LET keys == FirstSeen([i \in 1..Len(costs) |-> CostGroupKey(costs[i])], {})
        members(k) == {i \in 1..Len(costs) : CostGroupKey(costs[i]) = k}
        first(k) == costs[CHOOSE i \in members(k) : \A j \in members(k) : i <= j]
        amount(k) == TotalAmount({costs[i] : i \in members(k)})
    IN  SortDescending(
            [n \in 1..Len(keys) |->
                [code |-> first(keys[n]).code,
                 category |-> first(keys[n]).category,
                 description |-> first(keys[n]).description,
                 amount |-> amount(keys[n]),
                 percentage |-> Ratio(amount(keys[n]) * 100, total_amount)]],
            "amount")

\* the values get_indirect_costs_breakdown computes, before rounding
Breakdown(year, month) ==
    LET costs == RowsInOrder(IndirectCostsOf(year, month))
        total_meals == TotalMeals(MonthProductions(year, month))
        total_amount == TotalAmount(IndirectCostsOf(year, month))
    IN  [total_amount |-> total_amount,
         total_meals |-> total_meals,
         cost_per_meal |-> Ratio(total_amount, total_meals),
         details |-> BreakdownDetails(costs, total_amount)]

\* a division of a month report raised
ListRaises(list) == \E i \in 1..Len(list) : list[i].percentage.den = 0

\* the percentages of a list rounded to 1 decimal place
RoundedList(list) ==
    [i \in 1..Len(list) |->
        [list[i] EXCEPT !.percentage = RoundScaled(list[i].percentage, 10)]]

get_indirect_costs_breakdown(year, month) ==
    /\ UNCHANGED <<store, nextId, procs, fkEnforced>>
    /\ LET c == Breakdown(year, month)
       IN  resp' =
             IF c.cost_per_meal.den = 0 \/ ListRaises(c.details)
             THEN Response("get_indirect_costs_breakdown", <<year, month>>, 500, <<>>)
             ELSE Response("get_indirect_costs_breakdown", <<year, month>>, 200,
                    [totalAmount |-> c.total_amount,
                     totalMeals |-> c.total_meals,
                     costPerMeal |-> RoundScaled(c.cost_per_meal, 100),
                     details |-> RoundedList(c.details)])

\* reports.py:387-409: the month's productions grouped by hospital; a missing
\* hospital row is listed as "Unknown" (name 0)
CostAnalysisSchools(production_list, total_meals) ==
    LET school_ids == FirstSeen(Column(production_list, "hospitalId"), {})
    IN  SortDescending(
            [i \in 1..Len(school_ids) |->
                LET meals == TotalMeals(WithValue(production_list, "hospitalId",
                                                  school_ids[i]))
                IN  [name |-> IF Exists(hospitals, school_ids[i])
                              THEN school_ids[i] ELSE 0,
                     meals |-> meals,
                     percentage |-> Ratio(meals * 100, total_meals)]],
            "meals")

\* the values get_cost_analysis computes, before rounding
CostAnalysis(year, month) ==
    LET month_purchases == MonthPurchases(year, month)
        month_productions == MonthProductions(year, month)
        indirect_costs == IndirectCostsOf(year, month)
        total_ingredient_cost == TotalPrice(month_purchases)
        total_indirect_cost == TotalAmount(indirect_costs)
        total_meals == TotalMeals(month_productions)
        ingredient_cpm == Ratio(total_ingredient_cost, total_meals)
        indirect_cpm == Ratio(total_indirect_cost, total_meals)
    IN  [total_ingredient_cost |-> total_ingredient_cost,
         total_indirect_cost |-> total_indirect_cost,
         total_meals |-> total_meals,
         ingredient_cpm |-> ingredient_cpm,
         indirect_cpm |-> indirect_cpm,
         total_cpm |-> IF ingredient_cpm.den = 0 \/ indirect_cpm.den = 0
                       THEN TrueDiv(0, 0) ELSE AddRatio(ingredient_cpm, indirect_cpm),
         schools |-> CostAnalysisSchools(RowsInOrder(month_productions), total_meals),
         purchases |-> RowsInOrder(month_purchases),
         productions |-> RowsInOrder(month_productions),
         indirectCosts |-> RowsInOrder(indirect_costs)]

get_cost_analysis(year, month) ==
    /\ UNCHANGED <<store, nextId, procs, fkEnforced>>
    /\ LET c == CostAnalysis(year, month)
       IN  resp' =
             IF c.total_cpm.den = 0 \/ ListRaises(c.schools)
             THEN Response("get_cost_analysis", <<year, month>>, 500, <<>>)
             ELSE Response("get_cost_analysis", <<year, month>>, 200,
                    [totalIngredientCost |-> c.total_ingredient_cost,
                     totalIndirectCost |-> c.total_indirect_cost,
                     totalMeals |-> c.total_meals,
                     ingredientCPM |-> RoundScaled(c.ingredient_cpm, 100),
                     indirectCPM |-> RoundScaled(c.indirect_cpm, 100),
                     totalCPM |-> RoundScaled(c.total_cpm, 100),
                     schools |-> RoundedList(c.schools),
                     purchases |-> c.purchases,
                     productions |-> c.productions,
                     indirectCosts |-> c.indirectCosts])

\* indirect_costs.py:43-56
create_indirect_cost(data, user) ==
    /\ nextId.indirectCosts < MaxIndirectCosts
    /\ UNCHANGED <<weeks, purchases, productions, ingredients, hospitals, procs,
                   fkEnforced>>
    /\ LET cost == [id |-> nextId.indirectCosts + 1, createdBy |-> user] @@ data
       IN  /\ indirectCosts' = indirectCosts \cup {cost}
           /\ nextId' = [nextId EXCEPT !.indirectCosts = @ + 1]
           /\ resp' = Response("create_indirect_cost", data, 200, cost)

----------------------------------------------------------------------------
(* GET /monthly: reports.py:238-264 *)

RECURSIVE WeeksByNumber(_)
\* .order_by(Week.weekNumber): ascending, rows of one number in insertion order
WeeksByNumber(rows) ==
    IF rows = {} THEN <<>>
    ELSE LET first == CHOOSE r \in rows :
                        \A o \in rows : \/ r.weekNumber < o.weekNumber
                                        \/ r.weekNumber = o.weekNumber /\ r.id <= o.id
         IN  <<first>> \o WeeksByNumber(rows \ {first})

\* where Week.year == year, Week.month == month
WeeksOf(year, month) == {w \in weeks : w.year = year /\ w.month = month}

get_monthly_report(year, month) ==
    /\ UNCHANGED <<store, nextId, procs, fkEnforced>>
    /\ resp' = Response("get_monthly_report", <<year, month>>, 200,
                        [weeks |-> WeeksByNumber(WeeksOf(year, month)),
                         indirectCosts |-> RowsInOrder(IndirectCostsOf(year, month))])

----------------------------------------------------------------------------
(* The reports over a store filled one request at a time *)

Tue04Mar2025 == Ymd2Ord(2025, 3, 4)
Todays == {Tue04Mar2025}
ReportMonths == {<<2025, 3>>}
\* the week of the records and a week number that 2025 does not have
ReportWeeks == {<<2025, 10>>, <<2025, 53>>}

\* purchases whose totalPrice is not quantity * unitPrice
ReportPurchaseInputs ==
    {[ingredientId |-> 1, service |-> "LUNCH", purchaseDate |-> d,
      quantity |-> 2, unitPrice |-> 10, totalPrice |-> 25] :
        d \in {Wed01Jan2025, Wed05Mar2025}}

\* productions of yesterday, with and without meals
ReportProductionInputs ==
    {[hospitalId |-> 1, service |-> "LUNCH", productionDate |-> Mon03Mar2025,
      patientsServed |-> n] : n \in {0, 10}}

IndirectCostInputs ==
    {[month |-> 3, year |-> 2025, category |-> "Salaries", description |-> "staff",
      amount |-> x[1], code |-> x[2]] : x \in {<<0, "">>, <<300, "">>, <<300, "A">>}}

NextReports ==
    \/ \E data \in ReportPurchaseInputs, user \in Users : create_purchase(data, user)
    \/ \E data \in ReportProductionInputs, user \in Users : create_production(data, user)
    \/ \E data \in IndirectCostInputs, user \in Users : create_indirect_cost(data, user)
    \/ \E today \in Todays : get_dashboard_data(today)
    \/ \E w \in ReportWeeks : get_weekly_report(w[1], w[2])
    \/ \E m \in ReportMonths : get_indirect_costs_breakdown(m[1], m[2])
    \/ \E m \in ReportMonths : get_cost_analysis(m[1], m[2])
    \/ \E m \in ReportMonths : get_monthly_report(m[1], m[2])

SpecReports == Init /\ [][NextReports]_vars

----------------------------------------------------------------------------
(* Reports over a store written by interleaved requests: create_production  *)
(* in steps, delete_hospital between them, and the two reports that list    *)
(* productions by hospital.  The store starts with the production of one    *)
(* hospital recorded the day before the reports are read.                   *)

OrphanHospitalIds == {1, 2}

\* productions of either hospital, of yesterday or of an earlier week
OrphanProductionInputs ==
    {[hospitalId |-> h, service |-> "LUNCH", productionDate |-> d,
      patientsServed |-> 10] : h \in OrphanHospitalIds, d \in {Mon03Mar2025, Mon30Dec2024}}

InitOrphans ==
    /\ weeks = {NewWeek(0, Mon03Mar2025)}
    /\ purchases = {}
    /\ productions = {NewProduction(0, 0,
                         [hospitalId |-> 1, service |-> "LUNCH",
                          productionDate |-> Mon03Mar2025, patientsServed |-> 10],
                         "admin")}
    /\ ingredients = {[id |-> i, lastPrice |-> 0] : i \in IngredientIds}
    /\ hospitals = {[id |-> h] : h \in OrphanHospitalIds}
    /\ indirectCosts = {}
    /\ nextId = [weeks |-> 0, purchases |-> 0, productions |-> 0, indirectCosts |-> 0]
    /\ resp = NoResp
    /\ procs = [p \in Procs |-> Idle]
    /\ fkEnforced \in BOOLEAN

NextOrphans ==
    \/ \E p \in Procs, data \in OrphanProductionInputs, user \in Users :
           begin_create_production(p, data, user)
    \/ \E p \in Procs : find_week(p)
    \/ \E p \in Procs : insert_week(p)
    \/ \E p \in Procs : insert_production(p)
    \/ \E id \in OrphanHospitalIds : delete_hospital(id)
    \/ \E today \in Todays : get_dashboard_data(today)
    \/ \E m \in ReportMonths : get_cost_analysis(m[1], m[2])

SpecOrphans == InitOrphans /\ [][NextOrphans]_vars

----------------------------------------------------------------------------
(* The indirect-cost breakdown over costs with and without a code, of two   *)
(* categories and two amounts                                               *)

BreakdownCostInputs ==
    {[month |-> 3, year |-> 2025, category |-> g, description |-> "staff",
      amount |-> a, code |-> c] :
        g \in {"Salaries", "Utilities"}, a \in {300, 700}, c \in {"", "A"}}

NextBreakdown ==
    \/ \E data \in BreakdownCostInputs, user \in Users : create_indirect_cost(data, user)
    \/ \E m \in ReportMonths : get_indirect_costs_breakdown(m[1], m[2])

SpecBreakdown == Init /\ [][NextBreakdown]_vars

----------------------------------------------------------------------------
(* The worked example of the week of Monday 2025-03-03: purchases and a     *)
(* production of that week, and the dashboard read on the Tuesday           *)

ScenarioPurchaseInputs ==
    {[ingredientId |-> 1, service |-> "LUNCH", purchaseDate |-> d,
      quantity |-> 10, unitPrice |-> t \div 10, totalPrice |-> t] :
        t \in {100, 200}, d \in {Mon03Mar2025, Wed05Mar2025}}

NextScenario ==
    \/ \E data \in ScenarioPurchaseInputs, user \in Users : create_purchase(data, user)
    \/ \E data \in ProductionInputs, user \in Users : create_production(data, user)
    \/ \E today \in Todays : get_dashboard_data(today)

SpecScenario == Init /\ [][NextScenario]_vars

----------------------------------------------------------------------------
(* The grouped lists: productions of two hospitals and indirect costs       *)
(* recorded one request at a time after the first production, and the three *)
(* reports that group and sort them                                         *)

\* productions of yesterday of either hospital, of 10 or 20 meals
GroupProductionInputs ==
    {[hospitalId |-> h, service |-> "LUNCH", productionDate |-> Mon03Mar2025,
      patientsServed |-> n] : h \in OrphanHospitalIds, n \in {10, 20}}

NextGroups ==
    \/ \E data \in GroupProductionInputs, user \in Users : create_production(data, user)
    \/ \E data \in IndirectCostInputs, user \in Users : create_indirect_cost(data, user)
    \/ \E today \in Todays : get_dashboard_data(today)
    \/ \E m \in ReportMonths : get_cost_analysis(m[1], m[2])
    \/ \E m \in ReportMonths : get_indirect_costs_breakdown(m[1], m[2])

SpecGroups == InitOrphans /\ [][NextGroups]_vars

----------------------------------------------------------------------------
(* The cost analysis over totals that do not divide evenly: 3 meals, costs  *)
(* of 10 and 20                                                             *)

CpmPurchaseInputs ==
    {[ingredientId |-> 1, service |-> "LUNCH", purchaseDate |-> Wed05Mar2025,
      quantity |-> 1, unitPrice |-> t, totalPrice |-> t] : t \in {10, 20}}

CpmProductionInputs ==
    {[hospitalId |-> 1, service |-> "LUNCH", productionDate |-> Mon03Mar2025,
      patientsServed |-> n] : n \in {0, 3}}

CpmCostInputs ==
    {[month |-> 3, year |-> 2025, category |-> "Salaries", description |-> "staff",
      amount |-> a, code |-> ""] : a \in {0, 10}}

NextCpm ==
    \/ \E data \in CpmPurchaseInputs, user \in Users : create_purchase(data, user)
    \/ \E data \in CpmProductionInputs, user \in Users : create_production(data, user)
    \/ \E data \in CpmCostInputs, user \in Users : create_indirect_cost(data, user)
    \/ \E m \in ReportMonths : get_cost_analysis(m[1], m[2])

SpecCpm == Init /\ [][NextCpm]_vars

----------------------------------------------------------------------------
(* The weekly report over records at the turn of the year and at the two    *)
(* ends of a week, late at night and at midnight                            *)

Sun09Mar2025Night == DateTime(2025, 3, 9, 23)  \* the last hour of ISO 2025-W10
Mon10Mar2025 == DateTime(2025, 3, 10, 0)       \* the first hour of ISO 2025-W11

WeeklyPurchaseInputs ==
    {[ingredientId |-> 1, service |-> "LUNCH", purchaseDate |-> d,
      quantity |-> 2, unitPrice |-> 10, totalPrice |-> 25] :
        d \in {Mon30Dec2024, Wed01Jan2025, Mon03Mar2025, Wed05Mar2025,
                Sun09Mar2025Night, Mon10Mar2025}}

\* requests for the first week of two years, the week of March and a week
\* number that 2025 does not have
WeeklyReportWeeks == {<<2024, 1>>, <<2025, 1>>, <<2025, 10>>, <<2025, 53>>}

NextWeekly ==
    \/ \E data \in WeeklyPurchaseInputs, user \in Users : create_purchase(data, user)
    \/ \E data \in ProductionInputs, user \in Users : create_production(data, user)
    \/ \E w \in WeeklyReportWeeks : get_weekly_report(w[1], w[2])

SpecWeekly == Init /\ [][NextWeekly]_vars

----------------------------------------------------------------------------
(* The purchase ledger: purchases of two ingredients created, edited and    *)
(* deleted by an administrator and a data-entry user                        *)

\* seed_data.py:18-42: the role of each seeded user
RoleOf(user) == IF user = "admin" THEN "ADMIN" ELSE "DATA_ENTRY"

\* the request of an update or delete handler: the id of the path and the
\* current_user that require_role([ADMIN, DATA_ENTRY]) hands to the handler
Request(id, user) == [id |-> id, user |-> user]

\* a check that admits the creator only
NotAuthorized_CreatorOnly(purchase, user) == purchase.createdBy # user

\* current_user.role != UserRole.ADMIN and purchase.createdBy != current_user.id
NotAuthorized(purchase, user) == RoleOf(user) # "ADMIN" /\ purchase.createdBy # user

\* purchases.py:120-149
update_purchase(purchase_id, purchase_update, user) ==
    /\ UNCHANGED <<weeks, productions, ingredients, hospitals, indirectCosts,
                   nextId, procs, fkEnforced>>
    /\ IF ~Exists(purchases, purchase_id)
       THEN /\ resp' = Response("update_purchase", Request(purchase_id, user), 404, <<>>)
            /\ UNCHANGED purchases
       ELSE IF NotAuthorized(Row(purchases, purchase_id), user)
       THEN /\ resp' = Response("update_purchase", Request(purchase_id, user), 403, <<>>)
            /\ UNCHANGED purchases
       ELSE LET purchase == ApplyPatch(Row(purchases, purchase_id), purchase_update)
            IN  /\ purchases' = (purchases \ {Row(purchases, purchase_id)}) \cup {purchase}
                /\ resp' = Response("update_purchase", Request(purchase_id, user), 200, purchase)

\* purchases.py:151-173
delete_purchase(purchase_id, user) ==
    /\ UNCHANGED <<weeks, productions, ingredients, hospitals, indirectCosts,
                   nextId, procs, fkEnforced>>
    /\ IF ~Exists(purchases, purchase_id)
       THEN /\ resp' = Response("delete_purchase", Request(purchase_id, user), 404, <<>>)
            /\ UNCHANGED purchases
       ELSE IF NotAuthorized(Row(purchases, purchase_id), user)
       THEN /\ resp' = Response("delete_purchase", Request(purchase_id, user), 403, <<>>)
            /\ UNCHANGED purchases
       ELSE /\ purchases' = purchases \ {Row(purchases, purchase_id)}
            /\ resp' = Response("delete_purchase", Request(purchase_id, user), 200, <<>>)

\* production.py:117-146
update_production(production_id, production_update, user) ==
    /\ UNCHANGED <<weeks, purchases, ingredients, hospitals, indirectCosts,
                   nextId, procs, fkEnforced>>
    /\ IF ~Exists(productions, production_id)
       THEN /\ resp' = Response("update_production", Request(production_id, user), 404, <<>>)
            /\ UNCHANGED productions
       ELSE IF NotAuthorized(Row(productions, production_id), user)
       THEN /\ resp' = Response("update_production", Request(production_id, user), 403, <<>>)
            /\ UNCHANGED productions
       ELSE LET production == ApplyPatch(Row(productions, production_id), production_update)
            IN  /\ productions' = (productions \ {Row(productions, production_id)})
                                      \cup {production}
                /\ resp' = Response("update_production", Request(production_id, user),
                                    200, production)

\* production.py:148-170
delete_production(production_id, user) ==
    /\ UNCHANGED <<weeks, purchases, ingredients, hospitals, indirectCosts,
                   nextId, procs, fkEnforced>>
    /\ IF ~Exists(productions, production_id)
       THEN /\ resp' = Response("delete_production", Request(production_id, user), 404, <<>>)
            /\ UNCHANGED productions
       ELSE IF NotAuthorized(Row(productions, production_id), user)
       THEN /\ resp' = Response("delete_production", Request(production_id, user), 403, <<>>)
            /\ UNCHANGED productions
       ELSE /\ productions' = productions \ {Row(productions, production_id)}
            /\ resp' = Response("delete_production", Request(production_id, user), 200, <<>>)

\* indirect_costs.py:58-88
update_indirect_cost(cost_id, cost_update, user) ==
    /\ UNCHANGED <<weeks, purchases, productions, ingredients, hospitals,
                   nextId, procs, fkEnforced>>
    /\ IF ~Exists(indirectCosts, cost_id)
       THEN /\ resp' = Response("update_indirect_cost", Request(cost_id, user), 404, <<>>)
            /\ UNCHANGED indirectCosts
       ELSE IF NotAuthorized(Row(indirectCosts, cost_id), user)
       THEN /\ resp' = Response("update_indirect_cost", Request(cost_id, user), 403, <<>>)
            /\ UNCHANGED indirectCosts
       ELSE LET cost == ApplyPatch(Row(indirectCosts, cost_id), cost_update)
            IN  /\ indirectCosts' = (indirectCosts \ {Row(indirectCosts, cost_id)})
                                        \cup {cost}
                /\ resp' = Response("update_indirect_cost", Request(cost_id, user), 200, cost)

\* indirect_costs.py:90-111
delete_indirect_cost(cost_id, user) ==
    /\ UNCHANGED <<weeks, purchases, productions, ingredients, hospitals,
                   nextId, procs, fkEnforced>>
    /\ IF ~Exists(indirectCosts, cost_id)
       THEN /\ resp' = Response("delete_indirect_cost", Request(cost_id, user), 404, <<>>)
            /\ UNCHANGED indirectCosts
       ELSE IF NotAuthorized(Row(indirectCosts, cost_id), user)
       THEN /\ resp' = Response("delete_indirect_cost", Request(cost_id, user), 403, <<>>)
            /\ UNCHANGED indirectCosts
       ELSE /\ indirectCosts' = indirectCosts \ {Row(indirectCosts, cost_id)}
            /\ resp' = Response("delete_indirect_cost", Request(cost_id, user), 200, <<>>)

LedgerUsers == {"admin", "data"}
LedgerIngredientIds == {1, 2}
PurchaseIds == 1..MaxPurchases

\* purchases of either ingredient at one of two unit prices
LedgerPurchaseInputs ==
    {[ingredientId |-> i, service |-> "LUNCH", purchaseDate |-> Wed05Mar2025,
      quantity |-> 2, unitPrice |-> u, totalPrice |-> 25] :
        i \in LedgerIngredientIds, u \in {10, 12}}

\* a PurchaseUpdate body that sets a new unit price and total
PurchaseUpdateInputs == {[unitPrice |-> 15, totalPrice |-> 30]}

InitLedger ==
    /\ weeks = {}
    /\ purchases = {}
    /\ productions = {}
    /\ ingredients = {[id |-> i, lastPrice |-> 0] : i \in LedgerIngredientIds}
    /\ hospitals = {[id |-> h] : h \in HospitalIds}
    /\ indirectCosts = {}
    /\ nextId = [weeks |-> 0, purchases |-> 0, productions |-> 0, indirectCosts |-> 0]
    /\ resp = NoResp
    /\ procs = <<>>
    /\ fkEnforced = FALSE

NextLedger ==
    \/ \E data \in LedgerPurchaseInputs, user \in LedgerUsers : create_purchase(data, user)
    \/ \E id \in PurchaseIds, patch \in PurchaseUpdateInputs, user \in LedgerUsers :
          update_purchase(id, patch, user)
    \/ \E id \in PurchaseIds, user \in LedgerUsers : delete_purchase(id, user)

SpecLedger == InitLedger /\ [][NextLedger]_vars

----------------------------------------------------------------------------
(* Edits and deletes of purchases, productions and indirect costs by their  *)
(* creator, by an administrator and by another data-entry user              *)

\* the records of each kind that are created before the edits
MaxEdited == 1

Creators == {"data"}
Editors == {"admin", "data", "clerk"}
ProductionIds == 1..MaxProductions
IndirectCostIds == 1..MaxIndirectCosts

EditPurchaseInputs ==
    {[ingredientId |-> 1, service |-> "LUNCH", purchaseDate |-> Wed05Mar2025,
      quantity |-> 2, unitPrice |-> 10, totalPrice |-> 25]}

EditIndirectCostInputs ==
    {[month |-> 3, year |-> 2025, category |-> "Salaries", description |-> "staff",
      amount |-> 300, code |-> ""]}

\* a ProductionUpdate body and an IndirectCostUpdate body
ProductionUpdateInputs == {[patientsServed |-> 20]}
IndirectCostUpdateInputs == {[amount |-> 700, code |-> "A"]}

NextEdits ==
    \/ \E data \in EditPurchaseInputs, user \in Creators :
          nextId.purchases < MaxEdited /\ create_purchase(data, user)
    \/ \E data \in ProductionInputs, user \in Creators :
          nextId.productions < MaxEdited /\ create_production(data, user)
    \/ \E data \in EditIndirectCostInputs, user \in Creators :
          nextId.indirectCosts < MaxEdited /\ create_indirect_cost(data, user)
    \/ \E id \in PurchaseIds, patch \in PurchaseUpdateInputs, user \in Editors :
          update_purchase(id, patch, user)
    \/ \E id \in PurchaseIds, user \in Editors : delete_purchase(id, user)
    \/ \E id \in ProductionIds, patch \in ProductionUpdateInputs, user \in Editors :
          update_production(id, patch, user)
    \/ \E id \in ProductionIds, user \in Editors : delete_production(id, user)
    \/ \E id \in IndirectCostIds, patch \in IndirectCostUpdateInputs, user \in Editors :
          update_indirect_cost(id, patch, user)
    \/ \E id \in IndirectCostIds, user \in Editors : delete_indirect_cost(id, user)

SpecEdits == InitLedger /\ [][NextEdits]_vars

----------------------------------------------------------------------------
(* Edits of weeks, purchases and productions whose request bodies also name  *)
(* fields that the update models do not declare                              *)

\* an update model keeps the declared fields of a request body and ignores
\* the others; .dict(exclude_unset=True) then holds the declared fields sent
ParseBody(body, fields) == [f \in (DOMAIN body) \cap fields |-> body[f]]

\* an update model that also declares the bucket of the week
WeekUpdateFields_WithBucket ==
    {"mealsServed", "ingredientCost", "costPerMeal", "overheadPerMeal", "totalCPM",
     "status", "year", "weekNumber"}

\* models.py:156-162
WeekUpdateFields ==
    {"mealsServed", "ingredientCost", "costPerMeal", "overheadPerMeal", "totalCPM",
     "status"}

\* models.py:195-199
PurchaseUpdateFields == {"service", "quantity", "unitPrice", "totalPrice"}

\* models.py:233-235
ProductionUpdateFields == {"service", "patientsServed"}

WeekUpdateBodies ==
    {[status |-> "LOCKED", mealsServed |-> 10, ingredientCost |-> 300,
      costPerMeal |-> 30, id |-> 9, year |-> 2024, month |-> 12, weekNumber |-> 1,
      startDate |-> Mon30Dec2024, endDate |-> Mon30Dec2024]}

PurchaseUpdateBodies ==
    {[unitPrice |-> 15, totalPrice |-> 30, weekId |-> 9, purchaseDate |-> Mon30Dec2024]}

ProductionUpdateBodies ==
    {[patientsServed |-> 20, weekId |-> 9, productionDate |-> Mon30Dec2024]}

FramePurchaseInputs ==
    {[ingredientId |-> 1, service |-> "LUNCH", purchaseDate |-> d,
      quantity |-> 2, unitPrice |-> 10, totalPrice |-> 25] :
        d \in {Wed01Jan2025, Wed05Mar2025}}

NextFrames ==
    \/ \E data \in FramePurchaseInputs, user \in Users : create_purchase(data, user)
    \/ \E data \in ProductionInputs, user \in Users : create_production(data, user)
    \/ \E id \in WeekIds, body \in WeekUpdateBodies :
          update_week(id, ParseBody(body, WeekUpdateFields))
    \/ \E id \in PurchaseIds, body \in PurchaseUpdateBodies, user \in Users :
          update_purchase(id, ParseBody(body, PurchaseUpdateFields), user)
    \/ \E id \in ProductionIds, body \in ProductionUpdateBodies, user \in Users :
          update_production(id, ParseBody(body, ProductionUpdateFields), user)

SpecFrames == InitLedger /\ [][NextFrames]_vars

----------------------------------------------------------------------------
(* The month reports over records at the two ends of March 2025             *)

Fri28Feb2025Night == DateTime(2025, 2, 28, 23)
Sat01Mar2025 == DateTime(2025, 3, 1, 0)
Mon31Mar2025 == DateTime(2025, 3, 31, 0)
Mon31Mar2025Morning == DateTime(2025, 3, 31, 9)
Tue01Apr2025 == DateTime(2025, 4, 1, 0)

MonthPurchaseInputs ==
    {[ingredientId |-> 1, service |-> "LUNCH", purchaseDate |-> d,
      quantity |-> 2, unitPrice |-> 10, totalPrice |-> 20] :
        d \in {Fri28Feb2025Night, Sat01Mar2025, Mon31Mar2025, Mon31Mar2025Morning,
                Tue01Apr2025}}

MonthProductionInputs ==
    {[hospitalId |-> 1, service |-> "LUNCH", productionDate |-> d,
      patientsServed |-> 10] : d \in {Mon03Mar2025, Mon31Mar2025Morning, Tue01Apr2025}}

NextMonth ==
    \/ \E data \in MonthPurchaseInputs, user \in Users : create_purchase(data, user)
    \/ \E data \in MonthProductionInputs, user \in Users : create_production(data, user)
    \/ \E m \in ReportMonths : get_cost_analysis(m[1], m[2])
    \/ \E m \in ReportMonths : get_indirect_costs_breakdown(m[1], m[2])

SpecMonth == Init /\ [][NextMonth]_vars

----------------------------------------------------------------------------
(* Properties of sequential execution *)

CreateOps == {"create_purchase", "create_production"}

\* the date a create request carries
RequestDate(r) ==
    IF r.op = "create_purchase" THEN r.arg.purchaseDate ELSE r.arg.productionDate

\* C1: after any sequence of sequentially executed create_purchase,
\* create_production, create_week, update_week and delete_week, the store holds
\* at most one Week for each (year, weekNumber) pair.
C1_OneWeekPerYearAndNumber ==
    \A w1, w2 \in weeks :
        (w1.year = w2.year /\ w1.weekNumber = w2.weekNumber) => w1.id = w2.id

\* C1 witness: a second record was filed under a pair whose Week already
\* existed, after that Week had been updated
C1_Witness ==
    /\ resp.op = "create_purchase" /\ resp.status = 200
    /\ \E w \in weeks :
         /\ w.id = resp.body.weekId
         /\ w.status = "LOCKED"
         /\ \E p \in purchases : p.weekId = w.id /\ p.id # resp.body.id


SameIsoWeek(d1, d2) == IsoYear(d1) = IsoYear(d2) /\ IsoWeekNumber(d1) = IsoWeekNumber(d2)

\* C3: any two dates of the same ISO year and ISO week (also a week that
\* straddles 31 December / 1 January) are resolved to the same Week, whichever
\* is resolved first.
C3_SameIsoWeekSameWeek ==
    \A p1, p2 \in purchases :
        SameIsoWeek(p1.purchaseDate, p2.purchaseDate) => p1.weekId = p2.weekId

\* C4: the Week that week resolution returns for a date, created or reused
\* (also one inserted through create_week), starts on a Monday and ends 6 days
\* after its start.
C4_ResolvedWeekIsMondayToSunday ==
    (resp.op \in CreateOps /\ resp.status = 200) =>
        \A w \in weeks :
            w.id = resp.body.weekId =>
                /\ Weekday(w.startDate) = 0
                /\ w.endDate = w.startDate + 24 * 6

ZeroRollups(w) ==
    /\ w.mealsServed = 0
    /\ w.ingredientCost = 0
    /\ w.costPerMeal = 0
    /\ w.overheadPerMeal = 0
    /\ w.totalCPM = 0
    /\ w.status = "ACTIVE"

\* C5: a successful create_purchase/create_production writes no Week when a Week
\* with the date's (year, weekNumber) exists (every Week is unchanged), and
\* otherwise inserts exactly one Week, with all rollups 0 and status ACTIVE.
C5_ResolutionWritesAtMostOneWeek ==
    [][(resp'.op \in CreateOps /\ resp'.status = 200) =>
          LET d == RequestDate(resp')
              existing == {w \in weeks : w.year = YearOf(d)
                                         /\ w.weekNumber = IsoWeekNumber(d)}
          IN  IF existing # {}
              THEN weeks' = weeks /\ resp'.body.weekId \in Ids(existing)
              ELSE /\ weeks \subseteq weeks'
                   /\ Cardinality(weeks' \ weeks) = 1
                   /\ \A w \in weeks' \ weeks :
                        /\ ZeroRollups(w)
                        /\ w.id = resp'.body.weekId
                        /\ w.year = YearOf(d) /\ w.weekNumber = IsoWeekNumber(d)
      ]_vars

\* C5 witness: a record was filed under a Week that already held another
\* record and that is not in its freshly created state
C5_Witness ==
    /\ resp.op = "create_production" /\ resp.status = 200
    /\ \E w \in weeks :
         /\ w.id = resp.body.weekId
         /\ ~ZeroRollups(w)
         /\ \E p \in purchases : p.weekId = w.id

DeleteOps == {"delete_week", "delete_hospital", "delete_ingredient"}

\* the rows that hang on the entity a delete request names
Children(r) ==
    IF r.op = "delete_week"
    THEN {p \in purchases : p.weekId = r.arg} \cup {p \in productions : p.weekId = r.arg}
    ELSE IF r.op = "delete_hospital"
    THEN {p \in productions : p.hospitalId = r.arg}
    ELSE {p \in purchases : p.ingredientId = r.arg}

\* C7: a delete of a Week that has a Purchase or Production, of a Hospital that
\* has a Production, or of an Ingredient that has a Purchase is rejected and
\* leaves the store unchanged.
C7_DeleteWithChildrenRejected ==
    [][(resp'.op \in DeleteOps /\ Children(resp') # {}) =>
          (resp'.status = 400 /\ UNCHANGED store)
      ]_vars

\* C7 witness: the delete of a Week whose only child is a Production was
\* rejected
C7_Witness ==
    /\ resp.op = "delete_week" /\ resp.status = 400
    /\ \E p \in productions : p.weekId = resp.arg
    /\ ~\E p \in purchases : p.weekId = resp.arg

\* C9: create_purchase for an absent ingredient and create_production for an
\* absent hospital are rejected as not-found and leave the store unchanged.
C9_MissingParentRejected ==
    [][/\ (resp'.op = "create_purchase"
           /\ resp'.arg.ingredientId \notin {i.id : i \in ingredients})
          => (resp'.status = 404 /\ UNCHANGED store)
       /\ (resp'.op = "create_production"
           /\ resp'.arg.hospitalId \notin {h.id : h \in hospitals})
          => (resp'.status = 404 /\ UNCHANGED store)
      ]_vars

\* C9 witness: a create_purchase was answered not-found while a Week for its
\* date was absent
C9_Witness ==
    /\ resp.op = "create_purchase" /\ resp.status = 404
    /\ ingredients = {}
    /\ MatchingWeeks(weeks, YearOf(resp.arg.purchaseDate),
                     IsoWeekNumber(resp.arg.purchaseDate)) = {}


----------------------------------------------------------------------------
(* Properties of interleaved execution *)

\* C2: when two create requests whose dates resolve to the same (year,
\* weekNumber) both look the pair up before either inserts, at most one Week row
\* is inserted for the pair and no second Week for it becomes visible.
C2_RaceInsertsOneWeek ==
    \A w \in weeks : Cardinality(MatchingWeeks(weeks, w.year, w.weekNumber)) <= 1

\* C8: under any interleaving of create_purchase, create_production,
\* delete_week, delete_ingredient and delete_hospital, every Purchase references
\* an existing Week and Ingredient and every Production an existing Week and
\* Hospital.
C8_NoDanglingReference ==
    /\ \A p \in purchases :
         /\ \E w \in weeks : w.id = p.weekId
         /\ \E i \in ingredients : i.id = p.ingredientId
    /\ \A p \in productions :
         /\ \E w \in weeks : w.id = p.weekId
         /\ \E h \in hospitals : h.id = p.hospitalId


----------------------------------------------------------------------------
(* Properties of the reports *)

ReportOps == {"get_dashboard_data", "get_weekly_report", "get_monthly_report",
              "get_indirect_costs_breakdown", "get_cost_analysis"}

RECURSIVE SumField(_, _)
\* the sum of one field over a set of rows
SumField(rows, field) ==
    IF rows = {} THEN 0
    ELSE LET r == CHOOSE x \in rows : TRUE
         IN  r[field] + SumField(rows \ {r}, field)

\* every percentage of a returned list is 0
AllPercentagesZero(list) == \A i \in 1..Len(list) : list[i].percentage = 0

\* C6: every ratio a report computes is 0 when its denominator is 0, and no
\* report fails, whatever the store holds.
C6_ZeroDenominatorYieldsZero ==
    /\ resp.op \in ReportOps => resp.status = 200
    /\ resp.op = "get_dashboard_data" =>
         LET today == resp.arg
             week_start == today - OrdWeekday(today)
             month_start == Ymd2Ord(OrdYear(today), OrdMonth(today), 1)
             meals(lo, hi) ==
                 SumField({p \in productions : /\ lo <= DateOf(p.productionDate)
                                               /\ DateOf(p.productionDate) <= hi},
                          "patientsServed")
         IN  /\ resp.body.weekToDateMeals = 0 => resp.body.currentWeekCPM = 0
             /\ SumField({p \in productions : month_start <= DateOf(p.productionDate)},
                         "patientsServed") = 0
                  => resp.body.monthToDateAvgCPM = 0
             /\ resp.body.yesterdayMeals = 0
                  => AllPercentagesZero(resp.body.schoolsContribution)
             /\ Len(resp.body.monthCPMTrend) = 5
             /\ \A i \in 1..5 :
                    meals(week_start - 7 * (5 - i), week_start - 7 * (5 - i) + 6) = 0
                      => resp.body.monthCPMTrend[i].cpm = 0
    /\ resp.op = "get_indirect_costs_breakdown" =>
         /\ resp.body.totalAmount = 0 => AllPercentagesZero(resp.body.details)
         /\ resp.body.totalMeals = 0 => resp.body.costPerMeal = 0
    /\ resp.op = "get_cost_analysis" =>
         (resp.body.totalMeals = 0 =>
            /\ resp.body.ingredientCPM = 0
            /\ resp.body.indirectCPM = 0
            /\ resp.body.totalCPM = 0
            /\ AllPercentagesZero(resp.body.schools))

\* C6 witness: the cost analysis of a month that has purchases, indirect costs
\* and a production, and no meals
C6_Witness ==
    /\ resp.op = "get_cost_analysis" /\ resp.status = 200
    /\ resp.body.totalMeals = 0
    /\ resp.body.totalIngredientCost > 0
    /\ resp.body.totalIndirectCost > 0
    /\ Len(resp.body.schools) > 0

\* C10: create_purchase stores the totalPrice the caller sent, also when it is
\* not quantity * unitPrice, and the cost totals of the reports (dashboard week
\* and month cost, weekly daily cost, cost-analysis totalIngredientCost) are sums
\* of the stored totalPrice.
C10_TotalPriceAsSupplied ==
    /\ (resp.op = "create_purchase" /\ resp.status = 200) =>
         \E p \in purchases : p.id = resp.body.id /\ p.totalPrice = resp.arg.totalPrice
    /\ resp.op = "get_cost_analysis" =>
         resp.body.totalIngredientCost =
            SumField({p \in purchases : p \in MonthPurchases(resp.arg[1], resp.arg[2])},
                     "totalPrice")
    /\ resp.op = "get_weekly_report" =>
         SumField({resp.body.dailyData[i] : i \in 1..Len(resp.body.dailyData)}, "cost")
            = SumField({resp.body.purchases[i] : i \in 1..Len(resp.body.purchases)},
                       "totalPrice")
    /\ resp.op = "get_dashboard_data" =>
         LET today == resp.arg
             week_start == today - OrdWeekday(today)
             month_start == Ymd2Ord(OrdYear(today), OrdMonth(today), 1)
         IN  /\ Dashboard(today).week_ingredient_cost =
                  SumField({p \in purchases :
                               /\ week_start <= DateOf(p.purchaseDate)
                               /\ DateOf(p.purchaseDate) <= week_start + 6},
                           "totalPrice")
             /\ Dashboard(today).month_ingredient_cost =
                  SumField({p \in purchases : month_start <= DateOf(p.purchaseDate)},
                           "totalPrice")

\* C10 witness: a cost analysis whose ingredient total differs from the sum of
\* quantity * unitPrice of the purchases it lists
C10_Witness ==
    /\ resp.op = "get_cost_analysis" /\ resp.status = 200
    /\ Len(resp.body.purchases) = 2
    /\ resp.body.totalIngredientCost #
          SumSeq([i \in 1..Len(resp.body.purchases) |->
                     resp.body.purchases[i].quantity * resp.body.purchases[i].unitPrice])

----------------------------------------------------------------------------
(* Properties of the purchase ledger *)

\* C11: a successful create_purchase leaves the purchased ingredient's lastPrice
\* equal to the unitPrice of the purchase just created, which is the newest
\* purchase of that ingredient, and leaves every other ingredient as it was;
\* update_purchase and delete_purchase leave every ingredient as it was.
C11_LastPriceFollowsLatestCreate ==
    [][/\ (resp'.op = "create_purchase" /\ resp'.status = 200) =>
            LET made == resp'.body
                same == {p \in purchases' : p.ingredientId = made.ingredientId}
            IN  /\ made \in purchases'
                /\ \A p \in same : p.id <= made.id
                /\ \A i \in ingredients' :
                      i.id = made.ingredientId => i.lastPrice = made.unitPrice
                /\ \A i \in ingredients : i.id # made.ingredientId => i \in ingredients'
                /\ Ids(ingredients') = Ids(ingredients)
       /\ resp'.op \in {"update_purchase", "delete_purchase"} =>
            ingredients' = ingredients]_vars

\* C11 witness: a purchase of one ingredient was edited to a new unit price
\* while its ingredient keeps the price of the create, and the other
\* ingredient keeps a different price of its own
C11_Witness ==
    /\ resp.op = "update_purchase" /\ resp.status = 200
    /\ resp.body.unitPrice = 15
    /\ \E i, j \in ingredients :
          /\ i.id = resp.body.ingredientId /\ i.lastPrice = 12
          /\ j.id # i.id /\ j.lastPrice = 10

----------------------------------------------------------------------------
(* Properties of the report handlers *)

\* C12: no report changes the store; every Week, Purchase, Production,
\* IndirectCost, Hospital and Ingredient row is the same after the call as before.
C12_ReportsLeaveStoreUnchanged ==
    [][resp'.op \in ReportOps =>
          /\ weeks' = weeks /\ purchases' = purchases /\ productions' = productions
          /\ indirectCosts' = indirectCosts /\ hospitals' = hospitals
          /\ ingredients' = ingredients]_vars

\* C12 witness: a report has run over a store that holds weeks, purchases,
\* productions and indirect costs
C12_Witness ==
    /\ resp.op \in ReportOps /\ resp.status = 200
    /\ weeks # {} /\ purchases # {} /\ productions # {} /\ indirectCosts # {}

----------------------------------------------------------------------------
(* Properties of the grouped lists *)

RECURSIVE SumPercentages(_)
\* the sum of the percentage fields of a list, in tenths
SumPercentages(list) ==
    IF list = <<>> THEN 0 ELSE Head(list).percentage + SumPercentages(Tail(list))

\* the percentages of a list add up to 100 give or take 0.1 per group
SumsTo100(list) ==
    LET off == SumPercentages(list) - 1000
    IN  -Len(list) <= off /\ off <= Len(list)

\* C13: in the dashboard's and the cost analysis's per-hospital lists and in the
\* indirect-cost breakdown the percentages add up to 100, within 0.1 per
\* group, whenever the reported whole is > 0, also when a production's
\* hospital row is missing.
C13_PercentagesSumTo100 ==
    /\ (resp.op = "get_dashboard_data" /\ resp.status = 200 /\ resp.body.yesterdayMeals > 0)
          => SumsTo100(resp.body.schoolsContribution)
    /\ (resp.op = "get_cost_analysis" /\ resp.status = 200 /\ resp.body.totalMeals > 0)
          => SumsTo100(resp.body.schools)
    /\ (resp.op = "get_indirect_costs_breakdown" /\ resp.status = 200
        /\ resp.body.totalAmount > 0)
          => SumsTo100(resp.body.details)

\* the entries of a list that satisfy a test, as a set of positions
Positions(list, Test(_)) == {i \in 1..Len(list) : Test(list[i])}

\* C14: the breakdown merges the month's costs by 'code if present, else
\* category': the costs of one code are one group that carries the sum of
\* their amounts whatever their categories, and the costs without a code are
\* one group per category.
C14_GroupsByCodeElseCategory ==
    (resp.op = "get_indirect_costs_breakdown" /\ resp.status = 200) =>
        LET costs == IndirectCostsOf(resp.arg[1], resp.arg[2])
            details == resp.body.details
        IN  \A c \in costs :
               LET mates == IF c.code # ""
                            THEN {x \in costs : x.code = c.code}
                            ELSE {x \in costs : x.code = "" /\ x.category = c.category}
                   InGroup(d) == IF c.code # ""
                                 THEN d.code = c.code
                                 ELSE d.code = "" /\ d.category = c.category
                   at == Positions(details, InGroup)
               IN  /\ Cardinality(at) = 1
                   /\ \A i \in at : details[i].amount = SumField(mates, "amount")

\* the smallest id of a non-empty set of rows: the row the query returns first
MinId(rows) == CHOOSE n \in Ids(rows) : \A m \in Ids(rows) : n <= m

\* a list runs from the largest value of a field to the smallest, entries of
\* one value in the order in which their groups were discovered
OrderedByDiscovery(list, field, First(_)) ==
    \A i, j \in 1..Len(list) :
        i < j => \/ list[i][field] > list[j][field]
                 \/ list[i][field] = list[j][field] /\ First(list[i]) < First(list[j])

\* C19: the dashboard's and the cost analysis's hospital lists are ordered by
\* meals and the breakdown's details by amount, largest first, and groups of
\* equal quantity stay in the order in which their first row was read.
C19_SortedStableByQuantity ==
    /\ (resp.op = "get_dashboard_data" /\ resp.status = 200) =>
          LET rows == {p \in productions : DateOf(p.productionDate) = resp.arg - 1}
              First(e) == MinId({p \in rows : p.hospitalId = e.name})
          IN  OrderedByDiscovery(resp.body.schoolsContribution, "meals", First)
    /\ (resp.op = "get_cost_analysis" /\ resp.status = 200) =>
          LET rows == MonthProductions(resp.arg[1], resp.arg[2])
              Name(p) == IF Exists(hospitals, p.hospitalId) THEN p.hospitalId ELSE 0
              First(e) == MinId({p \in rows : Name(p) = e.name})
          IN  OrderedByDiscovery(resp.body.schools, "meals", First)
    /\ (resp.op = "get_indirect_costs_breakdown" /\ resp.status = 200) =>
          LET rows == IndirectCostsOf(resp.arg[1], resp.arg[2])
              First(e) == MinId({c \in rows : c.code = e.code /\ c.category = e.category})
          IN  OrderedByDiscovery(resp.body.details, "amount", First)

\* C19 witness: a cost analysis that lists two hospitals of equal meals, read
\* from a store whose indirect costs form two groups of equal amount
C19_Witness ==
    /\ resp.op = "get_cost_analysis" /\ resp.status = 200
    /\ Len(resp.body.schools) = 2
    /\ resp.body.schools[1].meals = resp.body.schools[2].meals
    /\ \E c, d \in indirectCosts : c.code # d.code /\ c.amount = d.amount

----------------------------------------------------------------------------
(* Properties of the worked example *)

\* the dashboard was read over purchases of 100 and 200 and one production of
\* 10 meals, all dated 2025-03-03
ScenarioRead ==
    /\ resp.op = "get_dashboard_data" /\ resp.status = 200
    /\ Cardinality(purchases) = 2
    /\ {p.totalPrice : p \in purchases} = {100, 200}
    /\ \A p \in purchases : DateOf(p.purchaseDate) = Ymd2Ord(2025, 3, 3)
    /\ Cardinality(productions) = 1
    /\ \A p \in productions : /\ p.patientsServed = 10
                              /\ DateOf(p.productionDate) = Ymd2Ord(2025, 3, 3)

\* the three records are filed under one Week of 2025 with the given number,
\* and the week's cost is 300, its meals 10 and its cost per meal 30
ScenarioFiledUnder(weekNumber) ==
    /\ \E w \in weeks :
          /\ w.year = 2025 /\ w.weekNumber = weekNumber
          /\ \A p \in purchases : p.weekId = w.id
          /\ \A p \in productions : p.weekId = w.id
    /\ Dashboard(resp.arg).week_ingredient_cost = 300
    /\ resp.body.weekToDateMeals = 10
    /\ resp.body.currentWeekCPM = 30

----------------------------------------------------------------------------
(* Properties of the dashboard and the weekly report *)

\* C16: sevenDayTrend has exactly 7 entries, the i-th for the day today - 7 + i,
\* oldest first, each carrying the sum of the meals of the productions dated
\* that day and 0 when there is none.
C16_SevenDayTrend ==
    (resp.op = "get_dashboard_data" /\ resp.status = 200) =>
        LET today == resp.arg
            trend == resp.body.sevenDayTrend
        IN  /\ Len(trend) = 7
            /\ \A i \in 1..7 :
                  LET day == today - 7 + i
                      on == {p \in productions : DateOf(p.productionDate) = day}
                  IN  /\ trend[i].date = OrdWeekday(day)
                      /\ trend[i].meals = SumField(on, "patientsServed")

\* C16 witness: a dashboard whose 6th day has meals and whose other days have none
C16_Witness ==
    /\ resp.op = "get_dashboard_data" /\ resp.status = 200
    /\ resp.body.sevenDayTrend[6].meals > 0
    /\ \A i \in (1..7) \ {6} : resp.body.sevenDayTrend[i].meals = 0

\* C17: the weekly report of a (year, weekNumber) whose span holds no purchase
\* and no production returns an empty purchases list, an empty productions
\* list and an empty daily breakdown, and no error.
C17_EmptyWeekReportsEmpty ==
    resp.op = "get_weekly_report" =>
        LET jan_1 == Ymd2Ord(resp.arg[1], 1, 1)
            first == jan_1 + 7 * (resp.arg[2] - 1) - OrdWeekday(jan_1)
            InSpan(day) == first <= day /\ day <= first + 6
        IN  (/\ \A p \in purchases : ~InSpan(DateOf(p.purchaseDate))
             /\ \A p \in productions : ~InSpan(DateOf(p.productionDate)))
            => /\ resp.status = 200
               /\ resp.body.purchases = <<>>
               /\ resp.body.productions = <<>>
               /\ resp.body.dailyData = <<>>

\* C17 witness: the report of a week without records, read from a store that
\* holds purchases and a production of other weeks
C17_Witness ==
    /\ resp.op = "get_weekly_report" /\ resp.status = 200
    /\ resp.arg = <<2025, 53>>
    /\ purchases # {} /\ productions # {}
    /\ resp.body.dailyData = <<>>

----------------------------------------------------------------------------
(* Properties of the dashboard's date ranges *)

\* C20: the dashboard's week-to-date meals and CPM count only the records
\* dated from the current week's Monday up to today, and its month-to-date CPM
\* only the records dated from the 1st of the month up to today; records dated
\* after today do not affect them.
C20_ToDateTotalsStopAtToday ==
    (resp.op = "get_dashboard_data" /\ resp.status = 200) =>
        LET today == resp.arg
            monday == today - OrdWeekday(today)
            first == Ymd2Ord(OrdYear(today), OrdMonth(today), 1)
            Meals(lo) == SumField({p \in productions :
                                      /\ lo <= DateOf(p.productionDate)
                                      /\ DateOf(p.productionDate) <= today},
                                  "patientsServed")
            Cost(lo) == SumField({p \in purchases :
                                     /\ lo <= DateOf(p.purchaseDate)
                                     /\ DateOf(p.purchaseDate) <= today},
                                 "totalPrice")
            indirect == SumField({c \in indirectCosts :
                                     /\ c.year = OrdYear(today)
                                     /\ c.month = OrdMonth(today)},
                                 "amount")
        IN  /\ resp.body.weekToDateMeals = Meals(monday)
            /\ resp.body.currentWeekCPM =
                  RoundScaled(Ratio(Cost(monday), Meals(monday)), 1)
            /\ resp.body.monthToDateAvgCPM =
                  RoundScaled(Ratio(Cost(first) + indirect, Meals(first)), 1)

----------------------------------------------------------------------------
(* Properties of the auto-created week *)

\* C18: a Week that create_purchase or create_production creates for a date d
\* carries the month of the Monday on or before d, not the month of d.
C18_MonthOfWeekStart ==
    [][(resp'.op \in CreateOps /\ resp'.status = 200) =>
          \A w \in weeks' \ weeks :
              LET day == DateOf(RequestDate(resp'))
                  monday == day - OrdWeekday(day)
              IN  w.month = OrdMonth(monday)]_vars

----------------------------------------------------------------------------
(* Properties of the cost analysis *)

\* the month's totals the cost analysis divides: ingredient cost, indirect
\* cost and meals
CpmTotals ==
    [cost |-> SumField(MonthPurchases(resp.arg[1], resp.arg[2]), "totalPrice"),
     indirect |-> SumField(IndirectCostsOf(resp.arg[1], resp.arg[2]), "amount"),
     meals |-> SumField(MonthProductions(resp.arg[1], resp.arg[2]), "patientsServed")]

\* the reported ingredientCPM and indirectCPM are the two quotients rounded to
\* 2 places, in hundredths, and all three figures are 0 without meals
CpmQuotients ==
    LET t == CpmTotals
    IN  IF t.meals = 0
        THEN /\ resp.body.ingredientCPM = 0
             /\ resp.body.indirectCPM = 0
             /\ resp.body.totalCPM = 0
        ELSE /\ resp.body.ingredientCPM = RoundScaled([num |-> t.cost, den |-> t.meals], 100)
             /\ resp.body.indirectCPM = RoundScaled([num |-> t.indirect, den |-> t.meals], 100)

\* C21 as stated: ingredientCPM and indirectCPM are the two quotients, all
\* three figures are 0 without meals, and the reported totalCPM equals the sum
\* of the reported ingredientCPM and indirectCPM.
C21_TotalIsSumOfReported ==
    (resp.op = "get_cost_analysis" /\ resp.status = 200) =>
        /\ CpmQuotients
        /\ resp.body.totalCPM = resp.body.ingredientCPM + resp.body.indirectCPM

\* C21 amended: ingredientCPM and indirectCPM are the two quotients, all three
\* figures are 0 without meals, and the reported totalCPM is the sum of the
\* unrounded quotients rounded to 2 places, which is within 0.01 of the sum of
\* the reported ingredientCPM and indirectCPM.
C21_TotalIsRoundedSum ==
    (resp.op = "get_cost_analysis" /\ resp.status = 200) =>
        LET t == CpmTotals
            off == resp.body.totalCPM - (resp.body.ingredientCPM + resp.body.indirectCPM)
        IN  /\ CpmQuotients
            /\ t.meals > 0 =>
                  resp.body.totalCPM =
                     RoundScaled([num |-> t.cost + t.indirect, den |-> t.meals], 100)
            /\ -1 <= off /\ off <= 1

\* C21 witness: a cost analysis whose totalCPM is not the sum of the two
\* reported figures (3.33 + 3.33 and 6.67)
C21_Witness ==
    /\ resp.op = "get_cost_analysis" /\ resp.status = 200
    /\ resp.body.totalMeals = 3
    /\ resp.body.totalCPM # resp.body.ingredientCPM + resp.body.indirectCPM

----------------------------------------------------------------------------
(* Properties of the weekly report *)

\* the rows of a list, as a set
RowsOf(list) == {list[i] : i \in 1..Len(list)}

\* C22: the span of the weekly report starts on a Monday, the Monday of the
\* week that holds 1 January moved on by weekNumber - 1 weeks, ends 6 days
\* later, and the report lists exactly the purchases and productions dated in
\* the span, whatever Week rows the store holds.
C22_WeeklySpanIsMondayToSunday ==
    /\ \A y \in 2023..2026, w \in 1..53 : OrdWeekday(WeeklyStart(y, w)) = 0
    /\ resp.op = "get_weekly_report" =>
          LET jan_1 == Ymd2Ord(resp.arg[1], 1, 1)
              first == DateOf(resp.body.week.startDate)
              last == DateOf(resp.body.week.endDate)
          IN  /\ resp.status = 200
              /\ OrdWeekday(first) = 0
              /\ first = jan_1 - OrdWeekday(jan_1) + 7 * (resp.arg[2] - 1)
              /\ last = first + 6
              /\ RowsOf(resp.body.purchases) =
                    {p \in purchases : /\ first <= DateOf(p.purchaseDate)
                                       /\ DateOf(p.purchaseDate) <= last}
              /\ RowsOf(resp.body.productions) =
                    {p \in productions : /\ first <= DateOf(p.productionDate)
                                         /\ DateOf(p.productionDate) <= last}

\* C22 witness: the report of (2025, 1) lists a purchase that is filed under a
\* Week of 2024 and leaves a later purchase out, and the store holds no Week
\* of that year and number
C22_Witness ==
    /\ resp.op = "get_weekly_report" /\ resp.arg = <<2025, 1>>
    /\ Len(resp.body.purchases) = 1
    /\ \A w \in weeks : ~(w.year = 2025 /\ w.weekNumber = 1)
    /\ \E p \in purchases : DateOf(p.purchaseDate) > DateOf(resp.body.week.endDate)

\* C23: the daily breakdown of the weekly report has exactly one entry per
\* calendar date of a listed purchase or production; an entry's meals are the
\* meals of the productions of its date and its cost the totalPrice of the
\* purchases of its date, so the entries add up to the totals of the lists.
C23_DailyBreakdownPerDate ==
    resp.op = "get_weekly_report" =>
        LET daily == resp.body.dailyData
            bought == RowsOf(resp.body.purchases)
            served == RowsOf(resp.body.productions)
            dates == {DateOf(p.purchaseDate) : p \in bought}
                        \cup {DateOf(p.productionDate) : p \in served}
        IN  /\ Len(daily) = Cardinality(dates)
            /\ {daily[i].date : i \in 1..Len(daily)} = dates
            /\ \A i \in 1..Len(daily) :
                  /\ daily[i].meals =
                        SumField({p \in served : DateOf(p.productionDate) = daily[i].date},
                                 "patientsServed")
                  /\ daily[i].cost =
                        SumField({p \in bought : DateOf(p.purchaseDate) = daily[i].date},
                                 "totalPrice")
            /\ SumSeq(Column(daily, "meals")) = SumField(served, "patientsServed")
            /\ SumSeq(Column(daily, "cost")) = SumField(bought, "totalPrice")

\* C23 witness: a breakdown of two dates, one of them with a production and a
\* purchase, over three listed records
C23_Witness ==
    /\ resp.op = "get_weekly_report"
    /\ Len(resp.body.dailyData) = 2
    /\ Len(resp.body.purchases) = 2 /\ Len(resp.body.productions) = 1
    /\ \E i \in 1..2 : resp.body.dailyData[i].meals > 0 /\ resp.body.dailyData[i].cost > 0

(* ---------------------------------------------------------------------- *)
(* Properties of the week a record is filed under                         *)
(* ---------------------------------------------------------------------- *)

\* the Weeks a record's weekId refers to
WeekOf(record) == {w \in weeks : w.id = record.weekId}

\* dt lies between the startDate and the endDate of every Week in ws
WithinSpan(dt, ws) == \A w \in ws : w.startDate <= dt /\ dt <= w.endDate

\* C24: the date of every Purchase and of every Production lies within the
\* startDate..endDate span of the Week it is attached to.
C24_DateWithinWeekSpan ==
    /\ \A p \in purchases : WithinSpan(p.purchaseDate, WeekOf(p))
    /\ \A p \in productions : WithinSpan(p.productionDate, WeekOf(p))

\* the dates of the stored purchases and productions
RecordDates == {p.purchaseDate : p \in purchases}
                  \cup {p.productionDate : p \in productions}

\* C25: the weekly report requested with the calendar year and the ISO week
\* number of a date d covers a span that contains d.
C25_WeeklySpanContainsDate ==
    resp.op = "get_weekly_report" =>
        \A d \in RecordDates :
            resp.arg = <<YearOf(d), IsoWeekNumber(d)>> =>
                /\ DateOf(resp.body.week.startDate) <= DateOf(d)
                /\ DateOf(d) <= DateOf(resp.body.week.endDate)

(* ---------------------------------------------------------------------- *)
(* Properties of the month reports                                        *)
(* ---------------------------------------------------------------------- *)

\* the purchases and the productions dated in the month m = <<year, month>>
PurchasesOfMonth(m) ==
    {p \in purchases : YearOf(p.purchaseDate) = m[1] /\ MonthOf(p.purchaseDate) = m[2]}
ProductionsOfMonth(m) ==
    {p \in productions :
        YearOf(p.productionDate) = m[1] /\ MonthOf(p.productionDate) = m[2]}

\* C26: the breakdown and the cost analysis of a month count exactly the
\* productions and purchases dated in that month, those of its last day at
\* any time of day included and those of other months excluded.
C26_MonthReportsCountTheMonth ==
    /\ (resp.op = "get_cost_analysis" /\ resp.status = 200) =>
          /\ RowsOf(resp.body.purchases) = PurchasesOfMonth(resp.arg)
          /\ RowsOf(resp.body.productions) = ProductionsOfMonth(resp.arg)
          /\ resp.body.totalIngredientCost =
                SumField(PurchasesOfMonth(resp.arg), "totalPrice")
          /\ resp.body.totalMeals =
                SumField(ProductionsOfMonth(resp.arg), "patientsServed")
    /\ (resp.op = "get_indirect_costs_breakdown" /\ resp.status = 200) =>
          resp.body.totalMeals =
              SumField(ProductionsOfMonth(resp.arg), "patientsServed")

(* ---------------------------------------------------------------------- *)
(* Properties of the rollups cached on a Week                             *)
(* ---------------------------------------------------------------------- *)

\* the purchases and the productions attached to the Week w
PurchasesOfWeek(w) == {p \in purchases : p.weekId = w.id}
ProductionsOfWeek(w) == {p \in productions : p.weekId = w.id}

\* C27: the rollups cached on every Week agree with the records attached to
\* it: ingredientCost is the sum of the purchases' totalPrice, mealsServed
\* the sum of the productions' meals, costPerMeal their quotient, or 0 when
\* no meal was served.
C27_RollupsAgreeWithChildren ==
    \A w \in weeks :
        /\ w.ingredientCost = SumField(PurchasesOfWeek(w), "totalPrice")
        /\ w.mealsServed = SumField(ProductionsOfWeek(w), "patientsServed")
        /\ IF w.mealsServed = 0 THEN w.costPerMeal = 0
           ELSE w.costPerMeal * w.mealsServed = w.ingredientCost

(* ---------------------------------------------------------------------- *)
(* Properties of edits and deletes                                        *)
(* ---------------------------------------------------------------------- *)

\* the outcome of an update (upd) or delete (del) request r on a table that
\* holds `before` when the request arrives and `after` when it returns: not
\* found for an absent id, forbidden and no change for a user who is neither
\* ADMIN nor the creator, otherwise the row edited in place or removed
EditOutcome(before, after, r, upd, del) ==
    r.op \in {upd, del} =>
        IF ~\E row \in before : row.id = r.arg.id
        THEN r.status = 404 /\ after = before
        ELSE LET row == CHOOSE x \in before : x.id = r.arg.id
             IN  IF RoleOf(r.arg.user) # "ADMIN" /\ row.createdBy # r.arg.user
                 THEN r.status = 403 /\ after = before
                 ELSE /\ r.status = 200
                      /\ r.op = del => after = before \ {row}
                      /\ r.op = upd =>
                            /\ after = (before \ {row}) \cup {r.body}
                            /\ r.body.id = row.id /\ r.body.createdBy = row.createdBy

\* C28: an update or delete of a Purchase, Production or IndirectCost by a
\* user who is neither ADMIN nor the creator is answered 403 and changes
\* nothing; by the creator or an ADMIN it succeeds; for an absent id it is
\* answered 404 whoever asks.
C28_OnlyCreatorOrAdminEdits ==
    [][/\ EditOutcome(purchases, purchases', resp',
                      "update_purchase", "delete_purchase")
       /\ EditOutcome(productions, productions', resp',
                      "update_production", "delete_production")
       /\ EditOutcome(indirectCosts, indirectCosts', resp',
                      "update_indirect_cost", "delete_indirect_cost")]_vars

\* C28 witness: another data-entry user's delete of a production was refused
\* and the production is still stored, after the creator edited a purchase
\* and an administrator edited an indirect cost
C28_Witness ==
    /\ resp.op = "delete_production" /\ resp.status = 403
    /\ resp.arg.user = "clerk"
    /\ \E p \in productions : p.id = resp.arg.id /\ p.createdBy = "data"
    /\ \E p \in purchases : p.createdBy = "data" /\ p.totalPrice = 30
    /\ \E c \in indirectCosts : c.createdBy = "data" /\ c.amount = 700

\* the fields of a Week that place it in the calendar
SameBucket(v, w) ==
    /\ v.id = w.id /\ v.year = w.year /\ v.month = w.month
    /\ v.weekNumber = w.weekNumber
    /\ v.startDate = w.startDate /\ v.endDate = w.endDate

\* C29: update_week changes nothing of a Week but its rollups and status:
\* id, year, month, weekNumber, startDate and endDate stay, other Weeks and
\* all Purchases and Productions stay; update_purchase and update_production
\* leave every record's weekId and date as they were.
C29_UpdatesKeepBucketAndAttachment ==
    [][/\ resp'.op = "update_week" =>
            /\ purchases' = purchases /\ productions' = productions
            /\ Ids(weeks') = Ids(weeks)
            /\ \A w \in weeks : \E v \in weeks' :
                  SameBucket(v, w) /\ (w.id # resp'.arg => v = w)
       /\ resp'.op = "update_purchase" =>
            /\ weeks' = weeks /\ Ids(purchases') = Ids(purchases)
            /\ \A p \in purchases : \E q \in purchases' :
                  q.id = p.id /\ q.weekId = p.weekId /\ q.purchaseDate = p.purchaseDate
       /\ resp'.op = "update_production" =>
            /\ weeks' = weeks /\ Ids(productions') = Ids(productions)
            /\ \A p \in productions : \E q \in productions' :
                  /\ q.id = p.id /\ q.weekId = p.weekId
                  /\ q.productionDate = p.productionDate]_vars

\* C29 witness: a Week was locked with new rollups by a request that also
\* named another year and week number, and it still is week 10 of 2025 with
\* an edited purchase and an edited production attached
C29_Witness ==
    /\ resp.op = "update_week" /\ resp.status = 200
    /\ resp.body.status = "LOCKED" /\ resp.body.ingredientCost = 300
    /\ resp.body.year = 2025 /\ resp.body.weekNumber = 10
    /\ resp.body \in weeks
    /\ \E p \in purchases : p.weekId = resp.body.id /\ p.totalPrice = 30
    /\ \E p \in productions : p.weekId = resp.body.id /\ p.patientsServed = 20

(* ---------------------------------------------------------------------- *)
(* Properties of a locked Week                                            *)
(* ---------------------------------------------------------------------- *)

\* C30: no request changes the set or the contents of the Purchases and
\* Productions attached to a Week whose status is LOCKED.
C30_LockedWeekKeepsRecords ==
    [][\A w \in weeks :
          w.status = "LOCKED" =>
              /\ {p \in purchases' : p.weekId = w.id} = PurchasesOfWeek(w)
              /\ {p \in productions' : p.weekId = w.id} = ProductionsOfWeek(w)]_vars

====
